---- MODULE Spec2Model ----
(***************************************************************************)
(* Model of src/cloud_provider/service.rs: the Service traits (fqdn, the   *)
(* exec_action / exec_check_action dispatch), the chart-release and        *)
(* provisioner deployers (deploy_stateless_service,                        *)
(* deploy_stateful_service, delete_stateless_service,                      *)
(* delete_stateful_service, helm_uninstall_release,                        *)
(* delete_terraform_tfstate_secret) and the Pending-pod sweep              *)
(* (delete_pending_service).                                               *)
(*                                                                         *)
(* One behaviour is one use of a service object: either the caller invokes *)
(* the dispatch methods of the service (fn = "dispatch"), or one of the    *)
(* free functions runs from its first statement to its return.  Every      *)
(* collaborator call (template renderer, cluster accessor, chart manager,  *)
(* provisioner, trait handler) is appended to `calls` with its arguments   *)
(* and its outcome, which the environment chooses.                         *)
(*                                                                         *)
(* The progress wrappers (send_progress_on_long_task_with_message,         *)
(* send_progress_for_application) run two threads, the calling path and    *)
(* the monitor thread they spawn; their behaviours are those of            *)
(* SpecProgress, where every step of either thread is one action.          *)
(***************************************************************************)
EXTENDS Integers, Sequences, FiniteSets, TLC

\* Longest pod list the cluster accessor returns for a selector.
MaxPods == 2
MaxReplicas == 1
\* Number of dispatch-method invocations a caller makes on one service.
MaxDispatch == 3

VARIABLES
    fn,         \* the function under execution
    pc,         \* its position
    service,    \* the service (read-only for the call)
    target,     \* the DeploymentTarget (read-only for the call)
    args,       \* the other arguments of the function
    calls,      \* collaborator calls made so far, in order, with outcome
    logs,       \* events sent to the logger, in order
    invoked,    \* dispatch-method invocations made by the caller, in order
    pods,       \* the pod list returned to delete_pending_service
    podIdx,     \* position of its loop in that list
    ret,        \* the value returned by the function (NoReturn until then)
    reporter,   \* position of the monitor thread of a progress wrapper
    channel,    \* the mpsc channel (tx, rx) of a progress wrapper
    barrier,    \* the threads arrived at deployment_start.wait()
    notified,   \* listener notifications made so far, in order
    blocking_task_result,   \* the value long_task() returned
    ticks,      \* rounds of the monitor loop started so far
    messages,   \* formatted messages the monitor still has to log this round
    diagnostics \* lines gathered by get_stateless_resource_information_for_user

\* the state of a progress wrapper and of its monitor thread
progress == <<reporter, channel, barrier, notified, blocking_task_result, ticks, messages>>

vars == <<fn, pc, service, target, args, calls, logs, invoked, pods, podIdx, ret, progress, diagnostics>>

----------------------------------------------------------------------------
\* Values

\* Option<T>
None == <<>>
Some(v) == <<v>>
IsSome(o) == o # None
unwrap_or_default(o) == IF o = None THEN "" ELSE o[1]

\* Result<(), EngineError>: the kind is the EngineError constructor used, the
\* underlying error is the collaborator's error it wraps (Option).
\* A function returning a plain value returns Value(v).
NoReturn == [status |-> "running", kind |-> "", underlying |-> None, value |-> ""]
Ok == [status |-> "Ok", kind |-> "", underlying |-> None, value |-> ""]
Err(kind, underlying) ==
    [status |-> "Err", kind |-> kind, underlying |-> underlying, value |-> ""]
Value(v) == [status |-> "Value", kind |-> "", underlying |-> None, value |-> v]

\* One collaborator call: res is "Ok" or "Err", or a PodReadyResult for the
\* readiness poll.
Call(op, a, res) == [op |-> op, args |-> a, res |-> res]

Action == {"Create", "Pause", "Delete", "Nothing"}
ServiceType == {"Application", "Database", "Router"}
KubernetesPodStatusPhase == {"Pending", "Running", "Succeeded", "Failed", "Unknown"}

\* Result<Option<bool>, CommandError> of kubectl_exec_is_pod_ready_with_retry
PodReadyResult == {"Ok(Some(true))", "Ok(Some(false))", "Ok(None)", "Err"}

----------------------------------------------------------------------------
\* Service (trait Service, default methods)

\* Service::workspace_directory
workspace_directory(s) ==
    LET dir_root == CASE s.service_type = "Application" -> "applications"
                      [] s.service_type = "Database" -> "databases"
                      [] s.service_type = "Router" -> "routers"
    IN "workspace/exec/" \o dir_root \o "/" \o s.name

\* Service::name_with_id
name_with_id(s) == s.name \o " (" \o s.id \o ")"

\* fqdn with the managed and non-managed formats exchanged
fqdn_branches_swapped(s, t, fqdn_arg, is_managed) ==
    IF s.publicly_accessible
    THEN fqdn_arg
    ELSE IF is_managed
         THEN s.sanitized_name \o "." \o t.namespace \o ".svc.cluster.local"
         ELSE s.id \o "-dns." \o t.namespace \o ".svc.cluster.local"

\* Service::fqdn
fqdn(s, t, fqdn_arg, is_managed) ==
    IF s.publicly_accessible
    THEN fqdn_arg
    ELSE IF is_managed
         THEN s.id \o "-dns." \o t.namespace \o ".svc.cluster.local"
         ELSE s.sanitized_name \o "." \o t.namespace \o ".svc.cluster.local"

----------------------------------------------------------------------------
\* Dispatch (traits StatelessService and StatefulService)

ActionHandlers == {"on_create", "on_pause", "on_delete"}
CheckHandlers == {"on_create_check", "on_pause_check", "on_delete_check"}

\* the match of exec_action with the Delete and Pause arms exchanged
action_handler_swapped(a) ==
    CASE a = "Create" -> Some("on_create")
      [] a = "Delete" -> Some("on_pause")
      [] a = "Pause" -> Some("on_delete")
      [] a = "Nothing" -> None

\* the match of exec_action: the handler an action is dispatched to
action_handler(a) ==
    CASE a = "Create" -> Some("on_create")
      [] a = "Delete" -> Some("on_delete")
      [] a = "Pause" -> Some("on_pause")
      [] a = "Nothing" -> None

\* the match of exec_check_action with Create running the action handler
check_handler_runs_action(a) ==
    CASE a = "Create" -> Some("on_create")
      [] a = "Delete" -> Some("on_delete_check")
      [] a = "Pause" -> Some("on_pause_check")
      [] a = "Nothing" -> None

\* the match of exec_check_action: the check an action is dispatched to
check_handler(a) ==
    CASE a = "Create" -> Some("on_create_check")
      [] a = "Delete" -> Some("on_delete_check")
      [] a = "Pause" -> Some("on_pause_check")
      [] a = "Nothing" -> None

\* One dispatch: the handler chosen by `handler` (if any) is called once and
\* its result (chosen by the implementation of the trait) is returned; with
\* no handler the method returns Ok(()).
Dispatch(method, handler) ==
    /\ fn = "dispatch"
    /\ Len(invoked) < MaxDispatch
    /\ \E ok \in BOOLEAN :
         LET r == IF handler = None \/ ok THEN Ok ELSE Err(handler[1], None)
         IN /\ calls' = IF handler = None THEN calls
                        ELSE Append(calls, Call(handler[1], <<>>,
                                                IF ok THEN "Ok" ELSE "Err"))
            /\ ret' = r
            /\ invoked' = Append(invoked, [method |-> method,
                                           stateful |-> service.stateful,
                                           first |-> Len(calls) + 1,
                                           last |-> Len(calls'),
                                           ret |-> r])
    /\ UNCHANGED <<diagnostics, progress, fn, pc, service, target, args, logs, pods, podIdx>>

StatelessService_exec_action ==
    /\ ~service.stateful
    /\ Dispatch("exec_action", action_handler(service.action))

StatelessService_exec_check_action ==
    /\ ~service.stateful
    /\ Dispatch("exec_check_action", check_handler(service.action))

StatefulService_exec_action ==
    /\ service.stateful
    /\ Dispatch("exec_action", action_handler(service.action))

StatefulService_exec_check_action ==
    /\ service.stateful
    /\ Dispatch("exec_check_action", check_handler(service.action))

\* Service::fqdn called on the service
Service_fqdn ==
    /\ fn = "fqdn"
    /\ pc = "start"
    /\ ret' = Value(fqdn(service, target, args.fqdn, args.is_managed))
    /\ pc' = "done"
    /\ UNCHANGED <<diagnostics, progress, fn, service, target, args, calls, logs, invoked, pods, podIdx>>

----------------------------------------------------------------------------
\* Capabilities of the service used by the deployers (traits Helm, Terraform)

helm_chart_dir(s) == "charts/" \o s.name
helm_chart_values_dir(s) == "chart_values/" \o s.name
helm_chart_external_name_service_dir(s) == "charts/external-name-svc"
helm_release_name(s) == s.name \o "-" \o s.id
terraform_common_resource_dir_path(s) == "terraform/common"
terraform_resource_dir_path(s) == "terraform/" \o s.name

\* ChartInfo::new_from_custom_namespace, with the parameters of the chart
\* manager's upgrade, in their order
ChartInfo_new_from_custom_namespace(name, path, ns, timeout, files, atomic, selector) ==
    [release_name |-> name, chart_dir |-> path, namespace |-> ns,
     timeout_seconds |-> timeout, value_files |-> files,
     atomic |-> atomic, selector |-> selector]

\* timeout of the chart upgrade, in seconds
UpgradeTimeout == 600

\* variant of namespace_labels: the ttl label is attached unconditionally
namespace_labels_always_ttl(s) ==
    Some(<<[name |-> "ttl",
            value |-> IF s.resource_expiration_in_seconds = None
                      THEN "0"
                      ELSE ToString(s.resource_expiration_in_seconds[1])]>>)

\* labels of the namespace: Some([ttl]) when the context has an expiration
namespace_labels(s) ==
    IF s.resource_expiration_in_seconds = None
    THEN None
    ELSE Some(<<[name |-> "ttl",
                 value |-> ToString(s.resource_expiration_in_seconds[1])]>>)

\* value files given to the upgrade
chart_values_files(s, workspace_dir) ==
    IF s.service_type = "Database"
    THEN <<workspace_dir \o "/q-values.yaml">>
    ELSE <<>>

\* the ChartInfo built by a release deploy
release_chart(s, t) ==
    ChartInfo_new_from_custom_namespace(
        helm_release_name(s), workspace_directory(s), t.namespace, UpgradeTimeout,
        chart_values_files(s, workspace_directory(s)), FALSE, s.selector)

----------------------------------------------------------------------------
\* Steps of the deployers

\* a collaborator call whose failure is ignored
Step_continues_after_failure(from, op, a, to, error) ==
    /\ pc = from
    /\ \E res \in {"Ok", "Err"} :
         /\ calls' = Append(calls, Call(op, a, res))
         /\ pc' = to
         /\ ret' = ret
    /\ UNCHANGED <<diagnostics, progress, fn, service, target, args, logs, invoked, pods, podIdx>>

\* variant of Step: a failed call is made a second time before the error is
\* returned
Step_retries_once(from, op, a, to, error) ==
    /\ pc = from
    /\ \E res \in {"Ok", "Err"} :
         /\ calls' = Append(calls, Call(op, a, res))
         /\ IF res = "Ok"
            THEN pc' = to /\ ret' = ret
            ELSE IF \E i \in 1..Len(calls) : calls[i].op = op /\ calls[i].args = a
                 THEN pc' = "done" /\ ret' = error
                 ELSE pc' = from /\ ret' = ret
    /\ UNCHANGED <<diagnostics, progress, fn, service, target, args, logs, invoked, pods, podIdx>>

\* A collaborator call whose failure returns `error` from the function and
\* whose success lets it go on at `to` (`f(..)?`, `.map_err(..)?` and
\* `if let Err(e) = f(..) { return Err(..) }`).
Step(from, op, a, to, error) ==
    /\ pc = from
    /\ \E res \in {"Ok", "Err"} :
         /\ calls' = Append(calls, Call(op, a, res))
         /\ IF res = "Ok"
            THEN pc' = to /\ ret' = ret
            ELSE pc' = "done" /\ ret' = error
    /\ UNCHANGED <<diagnostics, progress, fn, service, target, args, logs, invoked, pods, podIdx>>

Render == "generate_and_copy_all_files_into_dir"

\* EngineError::new_cannot_copy_files_from_one_directory_to_another(.., e)
CannotCopy == Err("cannot_copy_files_from_one_directory_to_another", Some(Render))

----------------------------------------------------------------------------
\* deploy_stateless_service

Stateless_tera_context ==
    /\ fn = "deploy_stateless_service"
    /\ Step("start", "tera_context", <<>>, "render_chart",
            Err("tera_context", None))

Stateless_render_chart ==
    /\ fn = "deploy_stateless_service"
    /\ Step("render_chart", Render,
            <<helm_chart_dir(service), workspace_directory(service)>>,
            "kubeconfig", CannotCopy)

Stateless_kubeconfig ==
    /\ fn = "deploy_stateless_service"
    /\ Step("kubeconfig", "get_kubeconfig_file_path", <<>>, "create_namespace",
            Err("get_kubeconfig_file_path", None))

\* deploy_stateless_service going from kubeconfig resolution to Helm::new
Stateless_create_namespace_skipped ==
    /\ fn = "deploy_stateless_service"
    /\ pc = "create_namespace"
    /\ pc' = "helm_new"
    /\ UNCHANGED <<diagnostics, progress, fn, service, target, args, calls, logs, invoked, pods, podIdx, ret>>

Stateless_create_namespace ==
    /\ fn = "deploy_stateless_service"
    /\ Step("create_namespace", "kubectl_exec_create_namespace",
            <<target.namespace, namespace_labels(service)>>, "helm_new",
            Err("k8s_create_namespace", Some("kubectl_exec_create_namespace")))

Stateless_helm_new ==
    /\ fn = "deploy_stateless_service"
    /\ Step("helm_new", "Helm::new", <<>>, "helm_upgrade",
            Err("helm::to_engine_error", Some("Helm::new")))

Stateless_helm_upgrade ==
    /\ fn = "deploy_stateless_service"
    /\ Step("helm_upgrade", "helm.upgrade", release_chart(service, target),
            "get_pods", Err("helm::to_engine_error", Some("helm.upgrade")))

\* what deploy_stateless_service returns for a result of the readiness poll:
\* `.map_err(..)?` then Ok(())
Stateless_is_pod_ready_return(res) ==
    IF res = "Err"
    THEN Err("k8s_pod_not_ready", Some("kubectl_exec_is_pod_ready_with_retry"))
    ELSE Ok

Stateless_is_pod_ready ==
    /\ fn = "deploy_stateless_service"
    /\ pc = "is_pod_ready"
    /\ \E res \in PodReadyResult :
         /\ calls' = Append(calls, Call("kubectl_exec_is_pod_ready_with_retry",
                                        <<target.namespace,
                                          unwrap_or_default(service.selector)>>, res))
         /\ ret' = Stateless_is_pod_ready_return(res)
    /\ pc' = "done"
    /\ UNCHANGED <<diagnostics, progress, fn, service, target, args, logs, invoked, pods, podIdx>>

----------------------------------------------------------------------------
\* delete_pending_service, called by both deployers after the upgrade

\* the pod lists kubectl_exec_get_pods can return: pods of the namespace, of
\* distinct names, each in some phase
PodLists(namespace) ==
    UNION {{[i \in 1..n |-> [name |-> "pod-" \o ToString(i),
                              namespace |-> namespace,
                              phase |-> ph[i]]] :
              ph \in [1..n -> KubernetesPodStatusPhase]} : n \in 0..MaxPods}

\* a loop test that lets every pod that is not Running through
is_pending_or_not_running(pod) == pod.phase # "Running"

\* the test of the loop: pod.status.phase == KubernetesPodStatusPhase::Pending
is_pending(pod) == pod.phase = "Pending"

K8sServiceIssue(op) == Err("k8s_service_issue", Some(op))

Sweep_get_pods ==
    /\ pc = "get_pods"
    /\ LET a == <<target.namespace, unwrap_or_default(service.selector)>>
       IN \/ /\ calls' = Append(calls, Call("kubectl_exec_get_pods", a, "Err"))
             /\ pc' = "done"
             /\ ret' = K8sServiceIssue("kubectl_exec_get_pods")
             /\ UNCHANGED <<diagnostics, progress, pods, podIdx>>
          \/ \E items \in PodLists(target.namespace) :
               /\ calls' = Append(calls, Call("kubectl_exec_get_pods", a, "Ok"))
               /\ pods' = items
               /\ podIdx' = 1
               /\ pc' = "sweep"
               /\ ret' = ret
    /\ UNCHANGED <<diagnostics, progress, fn, service, target, args, logs, invoked>>

Sweep_skip_pod ==
    /\ pc = "sweep"
    /\ podIdx <= Len(pods)
    /\ ~is_pending(pods[podIdx])
    /\ podIdx' = podIdx + 1
    /\ UNCHANGED <<diagnostics, progress, fn, pc, service, target, args, calls, logs, invoked, pods, ret>>

\* variant of Sweep_delete_pod: after a failed deletion the loop goes on
\* with the next pod
Sweep_delete_pod_goes_on ==
    /\ pc = "sweep"
    /\ podIdx <= Len(pods)
    /\ is_pending(pods[podIdx])
    /\ \E res \in {"Ok", "Err"} :
         calls' = Append(calls, Call("kubectl_exec_delete_pod",
                                     <<pods[podIdx].namespace, pods[podIdx].name>>, res))
    /\ podIdx' = podIdx + 1
    /\ UNCHANGED <<diagnostics, progress, fn, pc, service, target, args, logs, invoked, pods, ret>>

Sweep_delete_pod ==
    /\ pc = "sweep"
    /\ podIdx <= Len(pods)
    /\ is_pending(pods[podIdx])
    /\ \E res \in {"Ok", "Err"} :
         /\ calls' = Append(calls, Call("kubectl_exec_delete_pod",
                                        <<pods[podIdx].namespace, pods[podIdx].name>>,
                                        res))
         /\ IF res = "Ok"
            THEN podIdx' = podIdx + 1 /\ pc' = pc /\ ret' = ret
            ELSE podIdx' = podIdx /\ pc' = "done"
                 /\ ret' = K8sServiceIssue("kubectl_exec_delete_pod")
    /\ UNCHANGED <<diagnostics, progress, fn, service, target, args, logs, invoked, pods>>

Sweep_return ==
    /\ pc = "sweep"
    /\ podIdx > Len(pods)
    /\ pc' = "is_pod_ready"
    /\ UNCHANGED <<diagnostics, progress, fn, service, target, args, calls, logs, invoked, pods, podIdx, ret>>

----------------------------------------------------------------------------
\* deploy_stateful_service

LogInfo(message) == [level |-> "Info", message |-> message]

\* variant of Stateful_managed_tera_context: a managed service continues
\* on the chart-release path
Stateful_managed_tera_context_then_release ==
    /\ fn = "deploy_stateful_service"
    /\ service.is_managed
    /\ pc = "start"
    /\ logs' = Append(logs, LogInfo("Deploying managed " \o service.service_type
                                    \o " " \o name_with_id(service)))
    /\ \E res \in {"Ok", "Err"} :
         /\ calls' = Append(calls, Call("tera_context", <<>>, res))
         /\ IF res = "Ok"
            THEN pc' = "kubeconfig" /\ ret' = ret
            ELSE pc' = "done" /\ ret' = Err("tera_context", None)
    /\ UNCHANGED <<diagnostics, progress, fn, service, target, args, invoked, pods, podIdx>>

\* managed branch: the provisioner
Stateful_managed_tera_context ==
    /\ fn = "deploy_stateful_service"
    /\ service.is_managed
    /\ pc = "start"
    /\ logs' = Append(logs, LogInfo("Deploying managed " \o service.service_type
                                    \o " " \o name_with_id(service)))
    /\ \E res \in {"Ok", "Err"} :
         /\ calls' = Append(calls, Call("tera_context", <<>>, res))
         /\ IF res = "Ok"
            THEN pc' = "render_terraform_common" /\ ret' = ret
            ELSE pc' = "done" /\ ret' = Err("tera_context", None)
    /\ UNCHANGED <<diagnostics, progress, fn, service, target, args, invoked, pods, podIdx>>

Stateful_render_terraform_common ==
    /\ fn = "deploy_stateful_service"
    /\ Step("render_terraform_common", Render,
            <<terraform_common_resource_dir_path(service), workspace_directory(service)>>,
            "render_terraform_resource", CannotCopy)

Stateful_render_terraform_resource ==
    /\ fn = "deploy_stateful_service"
    /\ Step("render_terraform_resource", Render,
            <<terraform_resource_dir_path(service), workspace_directory(service)>>,
            "render_external_name_svc", CannotCopy)

\* variant of Stateful_render_external_name_svc: the outcome of the
\* rendering is not looked at
Stateful_render_external_name_svc_unchecked ==
    /\ fn = "deploy_stateful_service"
    /\ Step_continues_after_failure("render_external_name_svc", Render,
            <<helm_chart_external_name_service_dir(service),
              workspace_directory(service) \o "/external-name-svc">>,
            "terraform", CannotCopy)

Stateful_render_external_name_svc ==
    /\ fn = "deploy_stateful_service"
    /\ Step("render_external_name_svc", Render,
            <<helm_chart_external_name_service_dir(service),
              workspace_directory(service) \o "/external-name-svc">>,
            "terraform", CannotCopy)

Stateful_terraform ==
    /\ fn = "deploy_stateful_service"
    /\ pc = "terraform"
    /\ \E res \in {"Ok", "Err"} :
         /\ calls' = Append(calls, Call("terraform_init_validate_plan_apply",
                                        <<workspace_directory(service),
                                          service.is_dry_run_deploy>>, res))
         /\ ret' = IF res = "Ok"
                   THEN Ok
                   ELSE Err("terraform_error_while_executing_pipeline",
                            Some("terraform_init_validate_plan_apply"))
    /\ pc' = "done"
    /\ UNCHANGED <<diagnostics, progress, fn, service, target, args, logs, invoked, pods, podIdx>>

\* non-managed branch: the chart release
Stateful_tera_context ==
    /\ fn = "deploy_stateful_service"
    /\ ~service.is_managed
    /\ pc = "start"
    /\ logs' = Append(logs, LogInfo("Deploying containerized " \o service.service_type
                                    \o " " \o name_with_id(service)
                                    \o " on Kubernetes cluster"))
    /\ \E res \in {"Ok", "Err"} :
         /\ calls' = Append(calls, Call("tera_context", <<>>, res))
         /\ IF res = "Ok"
            THEN pc' = "kubeconfig" /\ ret' = ret
            ELSE pc' = "done" /\ ret' = Err("tera_context", None)
    /\ UNCHANGED <<diagnostics, progress, fn, service, target, args, invoked, pods, podIdx>>

Stateful_kubeconfig ==
    /\ fn = "deploy_stateful_service"
    /\ Step("kubeconfig", "get_kubeconfig_file_path", <<>>, "render_chart",
            Err("get_kubeconfig_file_path", None))

Stateful_render_chart ==
    /\ fn = "deploy_stateful_service"
    /\ Step("render_chart", Render,
            <<helm_chart_dir(service), workspace_directory(service)>>,
            "render_chart_values", CannotCopy)

Stateful_render_chart_values ==
    /\ fn = "deploy_stateful_service"
    /\ Step("render_chart_values", Render,
            <<helm_chart_values_dir(service), workspace_directory(service)>>,
            "create_namespace", CannotCopy)

Stateful_create_namespace ==
    /\ fn = "deploy_stateful_service"
    /\ Step("create_namespace", "kubectl_exec_create_namespace",
            <<target.namespace, namespace_labels(service)>>, "helm_new",
            Err("k8s_create_namespace", Some("kubectl_exec_create_namespace")))

Stateful_helm_new ==
    /\ fn = "deploy_stateful_service"
    /\ Step("helm_new", "Helm::new", <<>>, "helm_upgrade",
            Err("helm::to_engine_error", Some("Helm::new")))

Stateful_helm_upgrade ==
    /\ fn = "deploy_stateful_service"
    /\ Step("helm_upgrade", "helm.upgrade", release_chart(service, target),
            "get_pods", Err("helm::to_engine_error", Some("helm.upgrade")))

\* a return that accepts any Ok(_) of the poll
Stateful_is_pod_ready_return_never_fails(res) ==
    IF res \in {"Ok(Some(true))", "Ok(Some(false))", "Ok(None)"}
    THEN Ok
    ELSE Err("database_failed_to_start_after_several_retries",
             Some("kubectl_exec_is_pod_ready_with_retry"))

\* what deploy_stateful_service returns for a result of the readiness poll
Stateful_is_pod_ready_return(res) ==
    IF res = "Ok(Some(true))"
    THEN Ok
    ELSE Err("database_failed_to_start_after_several_retries",
             IF res = "Err"
             THEN Some("kubectl_exec_is_pod_ready_with_retry")
             ELSE None)

Stateful_is_pod_ready ==
    /\ fn = "deploy_stateful_service"
    /\ pc = "is_pod_ready"
    /\ \E res \in PodReadyResult :
         /\ calls' = Append(calls, Call("kubectl_exec_is_pod_ready_with_retry",
                                        <<target.namespace,
                                          unwrap_or_default(service.selector)>>, res))
         /\ ret' = Stateful_is_pod_ready_return(res)
    /\ pc' = "done"
    /\ UNCHANGED <<diagnostics, progress, fn, service, target, args, logs, invoked, pods, podIdx>>

----------------------------------------------------------------------------
\* helm_uninstall_release, called by delete_stateless_service and by the
\* non-managed branch of delete_stateful_service

ChartInfo_new_from_release_name(name, custom_namespace) == [release_name |-> name, namespace |-> custom_namespace]

HelmError(op) == Err("helm_error", Some(op))

\* the service is deleted by uninstalling its release
calls_helm_uninstall_release ==
    \/ fn = "delete_stateless_service"
    \/ fn = "delete_stateful_service" /\ ~service.is_managed

helm_uninstall_release_kubeconfig ==
    /\ calls_helm_uninstall_release
    /\ Step("start", "get_kubeconfig_file_path", <<>>, "helm_new",
            Err("get_kubeconfig_file_path", None))

helm_uninstall_release_helm_new ==
    /\ calls_helm_uninstall_release
    /\ Step("helm_new", "Helm::new", <<>>, "helm_uninstall", HelmError("Helm::new"))

\* variant of helm_uninstall_release_uninstall: the result of the uninstall
\* is dropped and the deletion reported as done
helm_uninstall_release_uninstall_ignores_failure ==
    /\ calls_helm_uninstall_release
    /\ pc = "helm_uninstall"
    /\ \E res \in {"Ok", "Err"} :
         calls' = Append(calls, Call("helm.uninstall",
                     ChartInfo_new_from_release_name(helm_release_name(service),
                                                     target.namespace), res))
    /\ pc' = "done"
    /\ ret' = Ok
    /\ UNCHANGED <<diagnostics, progress, fn, service, target, args, logs, invoked, pods, podIdx>>

\* helm.uninstall(&chart, &[]); its result is the result of the deletion
helm_uninstall_release_uninstall ==
    /\ calls_helm_uninstall_release
    /\ pc = "helm_uninstall"
    /\ \E res \in {"Ok", "Err"} :
         /\ calls' = Append(calls, Call("helm.uninstall",
                        ChartInfo_new_from_release_name(helm_release_name(service),
                                                        target.namespace), res))
         /\ ret' = IF res = "Ok" THEN Ok ELSE HelmError("helm.uninstall")
    /\ pc' = "done"
    /\ UNCHANGED <<diagnostics, progress, fn, service, target, args, logs, invoked, pods, podIdx>>

----------------------------------------------------------------------------
\* delete_stateful_service, managed branch: destroy by the provisioner

get_tfstate_name_without_workspace(s) == "tfstate-" \o s.id

get_tfstate_name(s) == "tfstate-default-" \o s.id

LogError(error) == [level |-> "Error", message |-> error.kind]

Delete_managed_tera_context ==
    /\ fn = "delete_stateful_service"
    /\ service.is_managed
    /\ Step("start", "tera_context", <<>>, "render_terraform_common",
            Err("tera_context", None))

Delete_render_terraform_common ==
    /\ fn = "delete_stateful_service"
    /\ Step("render_terraform_common", Render,
            <<terraform_common_resource_dir_path(service), workspace_directory(service)>>,
            "render_terraform_resource", CannotCopy)

Delete_render_terraform_resource ==
    /\ fn = "delete_stateful_service"
    /\ Step("render_terraform_resource", Render,
            <<terraform_resource_dir_path(service), workspace_directory(service)>>,
            "render_external_name_svc", CannotCopy)

Delete_render_external_name_svc ==
    /\ fn = "delete_stateful_service"
    /\ Step("render_external_name_svc", Render,
            <<helm_chart_external_name_service_dir(service),
              workspace_directory(service) \o "/external-name-svc">>,
            "render_external_name_svc_in_workspace", CannotCopy)

\* the external-name-service directory is rendered once more, into the
\* workspace directory itself
Delete_render_external_name_svc_in_workspace ==
    /\ fn = "delete_stateful_service"
    /\ Step("render_external_name_svc_in_workspace", Render,
            <<helm_chart_external_name_service_dir(service),
              workspace_directory(service)>>,
            "terraform_destroy", CannotCopy)

Delete_terraform_destroy ==
    /\ fn = "delete_stateful_service"
    /\ pc = "terraform_destroy"
    /\ \E res \in {"Ok", "Err"} :
         /\ calls' = Append(calls, Call("terraform_init_validate_destroy",
                                        <<workspace_directory(service), TRUE>>, res))
         /\ IF res = "Ok"
            THEN /\ logs' = Append(logs, LogInfo("Deleting secret containing tfstates"))
                 /\ pc' = "tfstate_secret_kubeconfig"
                 /\ ret' = ret
            ELSE LET engine_err == Err("terraform_error_while_executing_destroy_pipeline",
                                       Some("terraform_init_validate_destroy"))
                 IN  /\ logs' = Append(logs, LogError(engine_err))
                     /\ pc' = "done"
                     /\ ret' = engine_err
    /\ UNCHANGED <<diagnostics, progress, fn, service, target, args, invoked, pods, podIdx>>

\* delete_terraform_tfstate_secret; whatever it returns is dropped by
\* delete_stateful_service, which then returns Ok
delete_terraform_tfstate_secret_kubeconfig ==
    /\ fn = "delete_stateful_service"
    /\ pc = "tfstate_secret_kubeconfig"
    /\ \E res \in {"Ok", "Err"} :
         /\ calls' = Append(calls, Call("get_kubeconfig_file_path", <<>>, res))
         /\ IF res = "Ok"
            THEN pc' = "delete_secret" /\ ret' = ret
            ELSE pc' = "done" /\ ret' = Ok
    /\ UNCHANGED <<diagnostics, progress, fn, service, target, args, logs, invoked, pods, podIdx>>

delete_terraform_tfstate_secret_delete_secret ==
    /\ fn = "delete_stateful_service"
    /\ pc = "delete_secret"
    /\ \E res \in {"Ok", "Err"} :
         calls' = Append(calls, Call("kubectl_exec_delete_secret",
                                     <<target.namespace, get_tfstate_name(service)>>, res))
    /\ pc' = "done"
    /\ ret' = Ok
    /\ UNCHANGED <<diagnostics, progress, fn, service, target, args, logs, invoked, pods, podIdx>>

----------------------------------------------------------------------------
\* scale_down_database

scale_down_database_managed ==
    /\ fn = "scale_down_database"
    /\ service.is_managed
    /\ pc = "start"
    /\ pc' = "done"
    /\ ret' = Ok
    /\ UNCHANGED <<diagnostics, progress, fn, service, target, args, calls, logs, invoked, pods, podIdx>>

scale_down_database_kubeconfig ==
    /\ fn = "scale_down_database"
    /\ ~service.is_managed
    /\ Step("start", "get_kubeconfig_file_path", <<>>, "scale_replicas",
            Err("get_kubeconfig_file_path", None))

\* variant of scale_down_database_scale_replicas: the failure of the request
\* is not returned
scale_down_database_scale_replicas_ignores_failure ==
    /\ fn = "scale_down_database"
    /\ pc = "scale_replicas"
    /\ \E res \in {"Ok", "Err"} :
         calls' = Append(calls, Call("kubectl_exec_scale_replicas_by_selector",
                        [namespace |-> target.namespace,
                         kind |-> "Statefulset",
                         selector |-> "databaseId=" \o service.id,
                         replicas_count |-> args.replicas_count], res))
    /\ ret' = Ok
    /\ pc' = "done"
    /\ UNCHANGED <<diagnostics, progress, fn, service, target, args, logs, invoked, pods, podIdx>>

scale_down_database_scale_replicas ==
    /\ fn = "scale_down_database"
    /\ pc = "scale_replicas"
    /\ \E res \in {"Ok", "Err"} :
         /\ calls' = Append(calls, Call("kubectl_exec_scale_replicas_by_selector",
                        [namespace |-> target.namespace,
                         kind |-> "Statefulset",
                         selector |-> "databaseId=" \o service.id,
                         replicas_count |-> args.replicas_count], res))
         /\ ret' = IF res = "Ok"
                   THEN Ok
                   ELSE Err("k8s_scale_replicas",
                            Some("kubectl_exec_scale_replicas_by_selector"))
    /\ pc' = "done"
    /\ UNCHANGED <<diagnostics, progress, fn, service, target, args, logs, invoked, pods, podIdx>>

----------------------------------------------------------------------------
\* check_service_version

\* the part of the progress state that belongs to the monitor thread
monitor == <<reporter, channel, barrier, blocking_task_result, ticks, messages>>

DatabaseType == {"PostgreSQL", "MongoDB", "MySQL", "Redis"}

\* ServiceType::name()
ServiceType_name(s) ==
    IF s.service_type = "Database" THEN s.db_type \o " database" ELSE s.service_type

\* VersionsNumber::from_str on the version strings explored: Some(number),
\* or None for a string that does not parse
VersionStrings == {"1.2", "1.3", "one.two"}
VersionsNumber_from_str(s) ==
    CASE s = "1.2" -> Some([major |-> "1", minor |-> "2"])
      [] s = "1.3" -> Some([major |-> "1", minor |-> "3"])
      [] OTHER -> None

\* ProgressInfo given to a listener method
ProgressNotification(method, level, message) == [method |-> method, level |-> level, message |-> message]

ServiceVersionCheckResult_new(requested_version, matched_version, message) == [requested_version |-> requested_version, matched_version |-> matched_version, message |-> message]

version_mismatch_message(s, version) ==
    ServiceType_name(s) \o " version " \o s.version
        \o " has been requested by the user; but matching version is " \o version

\* Ok(version), version == service.version(): nothing is announced
check_service_version_match ==
    /\ fn = "check_service_version"
    /\ pc = "start"
    /\ args.result.status = "Ok"
    /\ service.version = args.result.value
    /\ pc' = "new_result"
    /\ UNCHANGED <<diagnostics, fn, service, target, args, calls, logs, invoked, pods, podIdx, ret,
                   notified, monitor>>

\* Ok(version), another version: the message is logged and sent to the
\* listeners
check_service_version_mismatch ==
    /\ fn = "check_service_version"
    /\ pc = "start"
    /\ args.result.status = "Ok"
    /\ service.version # args.result.value
    /\ LET message == version_mismatch_message(service, args.result.value)
       IN  /\ logs' = Append(logs, LogInfo(message))
           /\ notified' = Append(notified,
                 ProgressNotification("deployment_in_progress", "Info", Some(message)))
    /\ pc' = "new_result"
    /\ UNCHANGED <<diagnostics, fn, service, target, args, calls, invoked, pods, podIdx, ret, monitor>>

\* variant of check_service_version_new_result: the requested version is
\* reported as the matched one
check_service_version_new_result_requested_twice ==
    /\ fn = "check_service_version"
    /\ pc = "new_result"
    /\ LET requested == VersionsNumber_from_str(service.version)
           matched == VersionsNumber_from_str(args.result.value)
       IN  ret' = IF requested = None
                  THEN Err("version_number_parsing_error", Some(service.version))
                  ELSE IF matched = None
                  THEN Err("version_number_parsing_error", Some(args.result.value))
                  ELSE Value(ServiceVersionCheckResult_new(requested[1], requested[1],
                            IF service.version # args.result.value
                            THEN Some(version_mismatch_message(service, args.result.value))
                            ELSE None))
    /\ pc' = "done"
    /\ UNCHANGED <<diagnostics, fn, service, target, args, calls, logs, invoked, pods, podIdx, progress>>

\* variant of check_service_version_new_result: a version that does not
\* parse is replaced by the other one
check_service_version_new_result_lenient ==
    /\ fn = "check_service_version"
    /\ pc = "new_result"
    /\ LET requested == VersionsNumber_from_str(service.version)
           matched == VersionsNumber_from_str(args.result.value)
       IN  ret' = IF requested = None /\ matched = None
                  THEN Err("version_number_parsing_error", Some(service.version))
                  ELSE Value(ServiceVersionCheckResult_new(
                            IF requested = None THEN matched[1] ELSE requested[1],
                            IF matched = None THEN requested[1] ELSE matched[1],
                            IF service.version # args.result.value
                            THEN Some(version_mismatch_message(service, args.result.value))
                            ELSE None))
    /\ pc' = "done"
    /\ UNCHANGED <<diagnostics, fn, service, target, args, calls, logs, invoked, pods, podIdx, progress>>

\* Ok(ServiceVersionCheckResult::new(from_str(requested)?, from_str(version)?,
\* message))
check_service_version_new_result ==
    /\ fn = "check_service_version"
    /\ pc = "new_result"
    /\ LET requested == VersionsNumber_from_str(service.version)
           matched == VersionsNumber_from_str(args.result.value)
       IN  ret' = IF requested = None
                  THEN Err("version_number_parsing_error", Some(service.version))
                  ELSE IF matched = None
                  THEN Err("version_number_parsing_error", Some(args.result.value))
                  ELSE Value(ServiceVersionCheckResult_new(requested[1], matched[1],
                            IF service.version # args.result.value
                            THEN Some(version_mismatch_message(service, args.result.value))
                            ELSE None))
    /\ pc' = "done"
    /\ UNCHANGED <<diagnostics, fn, service, target, args, calls, logs, invoked, pods, podIdx, progress>>

\* Err(_): the version is not supported
check_service_version_unsupported ==
    /\ fn = "check_service_version"
    /\ pc = "start"
    /\ args.result.status = "Err"
    /\ LET message == ServiceType_name(service) \o " version " \o service.version
                        \o " is not supported!"
           error == Err("unsupported_version_error", None)
       IN  /\ notified' = Append(notified,
                 ProgressNotification("deployment_error", "Error", Some(message)))
           /\ logs' = Append(logs, LogError(error))
           /\ ret' = error
    /\ pc' = "done"
    /\ UNCHANGED <<diagnostics, fn, service, target, args, calls, invoked, pods, podIdx, monitor>>

----------------------------------------------------------------------------
\* check_kubernetes_service_error, debug_logs and
\* get_stateless_resource_information_for_user

CheckAction == {"Deploy", "Pause", "Delete"}

\* the listener methods of a CheckAction
in_progress_of(action) ==
    CASE action = "Deploy" -> "deployment_in_progress"
      [] action = "Pause" -> "pause_in_progress"
      [] action = "Delete" -> "delete_in_progress"

error_of(action) ==
    CASE action = "Deploy" -> "deployment_error"
      [] action = "Pause" -> "pause_error"
      [] action = "Delete" -> "delete_error"

\* str::to_lowercase on the service type names
to_lowercase(name) ==
    CASE name = "Application" -> "application"
      [] name = "Router" -> "router"
      [] name = "PostgreSQL database" -> "postgresql database"
      [] name = "MongoDB database" -> "mongodb database"
      [] name = "MySQL database" -> "mysql database"
      [] name = "Redis database" -> "redis database"

LogEvent(level, message) == [level |-> level, message |-> message]

RECURSIVE join(_, _)
join(lines, separator) ==
    IF lines = <<>> THEN ""
    ELSE IF Len(lines) = 1 THEN lines[1]
    ELSE lines[1] \o separator \o join(Tail(lines), separator)

\* the announcement, made whatever the result is
check_kubernetes_service_error_announce ==
    /\ fn = "check_kubernetes_service_error"
    /\ pc = "start"
    /\ LET message == args.action_verb \o " " \o to_lowercase(ServiceType_name(service))
                        \o " " \o service.name
       IN  /\ notified' = Append(notified,
                 ProgressNotification(in_progress_of(args.action), "Info", Some(message)))
           /\ logs' = Append(logs, LogEvent("Info", message))
    /\ pc' = "match_result"
    /\ UNCHANGED <<fn, service, target, args, calls, invoked, pods, podIdx, ret, monitor,
                   diagnostics>>

\* variant of check_kubernetes_service_error_succeeded: the success is told
\* as a deployment in progress whatever the action is
check_kubernetes_service_error_succeeded_as_deployment ==
    /\ fn = "check_kubernetes_service_error"
    /\ pc = "match_result"
    /\ args.result.status = "Ok"
    /\ notified' = Append(notified,
          ProgressNotification("deployment_in_progress", "Info",
              Some(args.action_verb \o " succeeded for "
                   \o to_lowercase(ServiceType_name(service)) \o " " \o service.name)))
    /\ ret' = Ok
    /\ pc' = "done"
    /\ UNCHANGED <<fn, service, target, args, calls, logs, invoked, pods, podIdx, monitor,
                   diagnostics>>

\* result is Ok: the success is told to the listeners
check_kubernetes_service_error_succeeded ==
    /\ fn = "check_kubernetes_service_error"
    /\ pc = "match_result"
    /\ args.result.status = "Ok"
    /\ notified' = Append(notified,
          ProgressNotification(in_progress_of(args.action), "Info",
              Some(args.action_verb \o " succeeded for "
                   \o to_lowercase(ServiceType_name(service)) \o " " \o service.name)))
    /\ ret' = Ok
    /\ pc' = "done"
    /\ UNCHANGED <<fn, service, target, args, calls, logs, invoked, pods, podIdx, monitor,
                   diagnostics>>

\* result is Err(err): the error is logged and told to the listeners
check_kubernetes_service_error_report ==
    /\ fn = "check_kubernetes_service_error"
    /\ pc = "match_result"
    /\ args.result.status = "Err"
    /\ logs' = Append(logs, LogEvent("Error",
          args.action_verb \o " error with " \o ServiceType_name(service) \o " "
             \o service.name \o " , id: " \o service.id))
    /\ notified' = Append(notified,
          ProgressNotification(error_of(args.action), "Error",
              Some(args.action_verb \o " error " \o to_lowercase(ServiceType_name(service))
                   \o " " \o service.name \o " : error => " \o args.result.kind)))
    /\ pc' = "debug_logs"
    /\ UNCHANGED <<fn, service, target, args, calls, invoked, pods, podIdx, ret, monitor,
                   diagnostics>>

\* variant of Gather: the lines gathered before the failed step are kept
Gather_keeps_lines(from, op, a, lines, to, error) ==
    /\ fn = "check_kubernetes_service_error"
    /\ pc = from
    /\ \E res \in {"Ok", "Err"} :
         /\ calls' = Append(calls, Call(op, a, res))
         /\ IF res = "Ok"
            THEN /\ \E found \in lines : diagnostics' = diagnostics \o found
                 /\ pc' = to
                 /\ logs' = logs
            ELSE /\ diagnostics' = diagnostics
                 /\ pc' = "debug_event"
                 /\ logs' = Append(logs, LogEvent("Error",
                       "error while retrieving debug logs from "
                          \o ServiceType_name(service) \o " " \o name_with_id(service)
                          \o ": " \o error))
    /\ UNCHANGED <<fn, service, target, args, invoked, pods, podIdx, ret, progress>>

\* one step of get_stateless_resource_information_for_user, called by
\* debug_logs: on Ok the lines drawn from the answer are added to the
\* result; on Err debug_logs logs the error and yields Vec::new()
Gather(from, op, a, lines, to, error) ==
    /\ fn = "check_kubernetes_service_error"
    /\ pc = from
    /\ \E res \in {"Ok", "Err"} :
         /\ calls' = Append(calls, Call(op, a, res))
         /\ IF res = "Ok"
            THEN /\ \E found \in lines : diagnostics' = diagnostics \o found
                 /\ pc' = to
                 /\ logs' = logs
            ELSE /\ diagnostics' = <<>>
                 /\ pc' = "debug_event"
                 /\ logs' = Append(logs, LogEvent("Error",
                       "error while retrieving debug logs from "
                          \o ServiceType_name(service) \o " " \o name_with_id(service)
                          \o ": " \o error))
    /\ UNCHANGED <<fn, service, target, args, invoked, pods, podIdx, ret, progress>>

Gather_kubeconfig ==
    Gather("debug_logs", "get_kubeconfig_file_path", <<>>, {<<>>},
           "kubectl_exec_logs", "get_kubeconfig_file_path")

Gather_logs ==
    Gather("kubectl_exec_logs", "kubectl_exec_logs",
           <<target.namespace, unwrap_or_default(service.selector)>>,
           {<<>>, <<"container log line">>},
           "kubectl_exec_get_pods", "k8s_get_logs_error")

\* the conditions not met and the last states of the containers of the pods
Gather_pods ==
    Gather("kubectl_exec_get_pods", "kubectl_exec_get_pods",
           <<target.namespace, unwrap_or_default(service.selector)>>,
           {<<>>, <<"Condition not met to start the container: Ready">>,
            <<"terminated state message: OOMKilled", "terminated state exit code: 137">>},
           "kubectl_exec_get_json_events", "k8s_cannot_get_pods")

\* the events whose type is not normal and that have a message
Gather_events ==
    Gather("kubectl_exec_get_json_events", "kubectl_exec_get_json_events",
           <<target.namespace>>,
           {<<>>, <<"Warning BackOff: Back-off restarting failed container">>},
           "debug_event", "k8s_get_json_events")

\* variant of check_kubernetes_service_error_debug: the Debug event is told
\* to the listeners as progress
check_kubernetes_service_error_debug_as_progress ==
    /\ fn = "check_kubernetes_service_error"
    /\ pc = "debug_event"
    /\ LET debug_logs_string == IF diagnostics # <<>>
                                THEN join(diagnostics, "\n")
                                ELSE "<no debug logs>"
       IN  /\ logs' = Append(logs, LogEvent("Debug", debug_logs_string))
           /\ notified' = Append(notified,
                 ProgressNotification(in_progress_of(args.action), "Info",
                                      Some(debug_logs_string)))
    /\ ret' = K8sServiceIssue(unwrap_or_default(args.result.underlying))
    /\ pc' = "done"
    /\ UNCHANGED <<fn, service, target, args, calls, invoked, pods, podIdx, monitor,
                   diagnostics>>

\* the Debug event with the diagnostics, then the classified error
check_kubernetes_service_error_debug ==
    /\ fn = "check_kubernetes_service_error"
    /\ pc = "debug_event"
    /\ LET debug_logs_string == IF diagnostics # <<>>
                                THEN join(diagnostics, "\n")
                                ELSE "<no debug logs>"
       IN  /\ logs' = Append(logs, LogEvent("Debug", debug_logs_string))
           /\ notified' = Append(notified,
                 ProgressNotification(error_of(args.action), "Debug",
                                      Some(debug_logs_string)))
    /\ ret' = K8sServiceIssue(unwrap_or_default(args.result.underlying))
    /\ pc' = "done"
    /\ UNCHANGED <<fn, service, target, args, calls, invoked, pods, podIdx, monitor,
                   diagnostics>>

----------------------------------------------------------------------------
\* The progress wrappers: send_progress_on_long_task_with_message and
\* send_progress_for_application

\* rounds of the monitor loop and messages of one report that are explored
MaxTicks == 2
MaxMessages == 2

ProgressWrappers == {"send_progress_on_long_task_with_message", "send_progress_for_application"}

\* mpsc::channel(): messages sent and not yet received, and which ends are
\* still alive (an end is dropped with the thread or closure that owns it)
NewChannel == [queue |-> 0, tx |-> TRUE, rx |-> TRUE]

\* no progress wrapper is running
NoProgress ==
    /\ reporter = "none"
    /\ channel = NewChannel
    /\ barrier = {}
    /\ notified = <<>>
    /\ blocking_task_result = NoReturn
    /\ ticks = 0
    /\ messages = 0

\* positions of the calling path at which the wrapped operation has not
\* completed yet
BeforeCompletion == {"start", "deployment_start", "deployment_start_blocked", "long_task"}

\* a listener notification, with the position of the calling path when it
\* was made
Notification(method) == [method |-> method, at |-> pc]

\* the calling path ---------------------------------------------------------

\* variant of Wrapper_spawn: two monitor threads are started
Wrapper_spawn_twice ==
    /\ fn \in ProgressWrappers
    /\ pc = "start"
    /\ calls' = calls \o << Call("thread::Builder::spawn", <<"main">>, "Ok"),
                            Call("thread::Builder::spawn", <<"main">>, "Ok") >>
    /\ reporter' = IF fn = "send_progress_for_application"
                   THEN "initial_query"
                   ELSE "notify"
    /\ pc' = IF fn = "send_progress_for_application"
             THEN "deployment_start"
             ELSE "long_task"
    /\ UNCHANGED <<diagnostics, fn, service, target, args, logs, invoked, pods, podIdx, ret,
                   channel, barrier, notified, blocking_task_result, ticks, messages>>

\* thread::Builder::new().name(..).spawn(closure): on failure the closure is
\* dropped, and with it the receiving end it owns; the result is discarded
Wrapper_spawn ==
    /\ fn \in ProgressWrappers
    /\ pc = "start"
    /\ \E res \in {"Ok", "Err"} :
         /\ calls' = Append(calls, Call("thread::Builder::spawn", <<"main">>, res))
         /\ IF res = "Ok"
            THEN /\ reporter' = IF fn = "send_progress_for_application"
                                THEN "initial_query"
                                ELSE "notify"
                 /\ channel' = channel
            ELSE /\ reporter' = "spawn_failed"
                 /\ channel' = [channel EXCEPT !.rx = FALSE]
    /\ pc' = IF fn = "send_progress_for_application"
             THEN "deployment_start"
             ELSE "long_task"
    /\ UNCHANGED <<diagnostics, fn, service, target, args, logs, invoked, pods, podIdx, ret,
                   barrier, notified, blocking_task_result, ticks, messages>>

\* deployment_start.wait() of the calling path: arrive at the barrier ...
Wrapper_deployment_start_wait ==
    /\ fn = "send_progress_for_application"
    /\ pc = "deployment_start"
    /\ barrier' = barrier \cup {"main"}
    /\ pc' = "deployment_start_blocked"
    /\ UNCHANGED <<diagnostics, fn, service, target, args, calls, logs, invoked, pods, podIdx, ret,
                   reporter, channel, notified, blocking_task_result, ticks, messages>>

\* variant of Wrapper_deployment_start_pass: the calling path does not wait
\* for the monitor
Wrapper_deployment_start_pass_alone ==
    /\ fn = "send_progress_for_application"
    /\ pc = "deployment_start_blocked"
    /\ calls' = Append(calls, Call("deployment_start.wait", <<"main">>, "Ok"))
    /\ pc' = "long_task"
    /\ UNCHANGED <<diagnostics, fn, service, target, args, logs, invoked, pods, podIdx, ret,
                   progress>>

\* ... and leave it once both threads have arrived (Barrier::new(2))
Wrapper_deployment_start_pass ==
    /\ fn = "send_progress_for_application"
    /\ pc = "deployment_start_blocked"
    /\ Cardinality(barrier) = 2
    /\ calls' = Append(calls, Call("deployment_start.wait", <<"main">>, "Ok"))
    /\ pc' = "long_task"
    /\ UNCHANGED <<diagnostics, fn, service, target, args, logs, invoked, pods, podIdx, ret,
                   progress>>

\* let blocking_task_result = long_task(); a panic of the task unwinds the
\* calling path, which drops the sending end
Wrapper_long_task ==
    /\ fn \in ProgressWrappers
    /\ pc = "long_task"
    /\ \E res \in {"Ok", "Err", "panic"} :
         /\ calls' = Append(calls, Call("long_task", <<"main">>, res))
         /\ IF res = "panic"
            THEN /\ pc' = "panicked"
                 /\ channel' = [channel EXCEPT !.tx = FALSE]
                 /\ blocking_task_result' = blocking_task_result
            ELSE /\ pc' = "send"
                 /\ channel' = channel
                 /\ blocking_task_result' = IF res = "Ok" THEN Ok
                                            ELSE Err("long_task", None)
    /\ UNCHANGED <<diagnostics, fn, service, target, args, logs, invoked, pods, podIdx, ret,
                   reporter, barrier, notified, ticks, messages>>

\* variant of Wrapper_send: the stop message is sent twice
Wrapper_send_twice ==
    /\ fn \in ProgressWrappers
    /\ pc = "send"
    /\ LET res == IF channel.rx THEN "Ok" ELSE "Err"
       IN  /\ calls' = calls \o << Call("tx.send", <<"main">>, res),
                                   Call("tx.send", <<"main">>, res) >>
           /\ channel' = IF channel.rx
                         THEN [channel EXCEPT !.queue = @ + 2]
                         ELSE channel
    /\ pc' = "return"
    /\ UNCHANGED <<diagnostics, fn, service, target, args, logs, invoked, pods, podIdx, ret,
                   reporter, barrier, notified, blocking_task_result, ticks, messages>>

\* let _ = tx.send(()): fails, and is ignored, when the receiving end is gone
Wrapper_send ==
    /\ fn \in ProgressWrappers
    /\ pc = "send"
    /\ LET res == IF channel.rx THEN "Ok" ELSE "Err"
       IN  /\ calls' = Append(calls, Call("tx.send", <<"main">>, res))
           /\ channel' = IF channel.rx
                         THEN [channel EXCEPT !.queue = @ + 1]
                         ELSE channel
    /\ pc' = "return"
    /\ UNCHANGED <<diagnostics, fn, service, target, args, logs, invoked, pods, podIdx, ret,
                   reporter, barrier, notified, blocking_task_result, ticks, messages>>

\* variant of Wrapper_return: the wrapper reports success whatever the task
\* returned
Wrapper_return_always_ok ==
    /\ fn \in ProgressWrappers
    /\ pc = "return"
    /\ ret' = Ok
    /\ channel' = [channel EXCEPT !.tx = FALSE]
    /\ pc' = "done"
    /\ UNCHANGED <<diagnostics, fn, service, target, args, calls, logs, invoked, pods, podIdx,
                   reporter, barrier, notified, blocking_task_result, ticks, messages>>

\* variant of Wrapper_return: the wrapper joins the monitor thread before it
\* returns
Wrapper_return_joins_reporter ==
    /\ fn \in ProgressWrappers
    /\ pc = "return"
    /\ reporter \in {"exited", "spawn_failed"}
    /\ ret' = blocking_task_result
    /\ channel' = [channel EXCEPT !.tx = FALSE]
    /\ pc' = "done"
    /\ UNCHANGED <<diagnostics, fn, service, target, args, calls, logs, invoked, pods, podIdx,
                   reporter, barrier, notified, blocking_task_result, ticks, messages>>

\* blocking_task_result is returned; tx goes out of scope
Wrapper_return ==
    /\ fn \in ProgressWrappers
    /\ pc = "return"
    /\ ret' = blocking_task_result
    /\ channel' = [channel EXCEPT !.tx = FALSE]
    /\ pc' = "done"
    /\ UNCHANGED <<diagnostics, fn, service, target, args, calls, logs, invoked, pods, podIdx,
                   reporter, barrier, notified, blocking_task_result, ticks, messages>>

\* the monitor thread of send_progress_on_long_task_with_message ------------

\* the listener method and the log of one round, by action
in_progress_method(action) ==
    CASE action = "Create" -> Some("deployment_in_progress")
      [] action = "Pause" -> Some("pause_in_progress")
      [] action = "Delete" -> Some("delete_in_progress")
      [] action = "Nothing" -> None

waiting_message_or_default(waiting_message) ==
    IF waiting_message = None THEN "No message..." ELSE waiting_message[1]

\* variant of Reporter_notify: the monitor looks at the channel before it
\* notifies, and leaves without a notification when it was told to stop
Reporter_notify_unless_stopped ==
    /\ fn = "send_progress_on_long_task_with_message"
    /\ reporter = "notify"
    /\ IF channel.queue > 0 \/ ~channel.tx
       THEN /\ reporter' = "exited"
            /\ UNCHANGED <<notified, logs, ticks>>
       ELSE /\ ticks < MaxTicks
            /\ ticks' = ticks + 1
            /\ LET method == in_progress_method(args.action)
               IN  IF IsSome(method)
                   THEN /\ notified' = Append(notified, Notification(method[1]))
                        /\ logs' = Append(logs,
                              LogInfo(waiting_message_or_default(args.waiting_message)))
                   ELSE UNCHANGED <<notified, logs>>
            /\ reporter' = "sleep"
    /\ UNCHANGED <<diagnostics, fn, pc, service, target, args, calls, invoked, pods, podIdx, ret,
                   channel, barrier, blocking_task_result, messages>>

Reporter_notify ==
    /\ fn = "send_progress_on_long_task_with_message"
    /\ reporter = "notify"
    /\ ticks < MaxTicks \/ channel.queue > 0 \/ ~channel.tx
    /\ ticks' = ticks + 1
    /\ LET method == in_progress_method(args.action)
       IN  IF IsSome(method)
           THEN /\ notified' = Append(notified, Notification(method[1]))
                /\ logs' = Append(logs,
                      LogInfo(waiting_message_or_default(args.waiting_message)))
           ELSE UNCHANGED <<diagnostics, notified, logs>>
    /\ reporter' = "sleep"
    /\ UNCHANGED <<diagnostics, fn, pc, service, target, args, calls, invoked, pods, podIdx, ret,
                   channel, barrier, blocking_task_result, messages>>

\* thread::sleep(Duration::from_secs(10))
Reporter_sleep ==
    /\ fn = "send_progress_on_long_task_with_message"
    /\ reporter = "sleep"
    /\ reporter' = "try_recv"
    /\ UNCHANGED <<diagnostics, fn, pc, service, target, args, calls, logs, invoked, pods, podIdx,
                   ret, channel, barrier, notified, blocking_task_result, ticks,
                   messages>>

\* variant of Reporter_try_recv: a received stop message does not end the
\* loop
Reporter_try_recv_goes_on ==
    /\ fn = "send_progress_on_long_task_with_message"
    /\ reporter = "try_recv"
    /\ LET res == IF channel.queue > 0 THEN "Ok"
                  ELSE IF ~channel.tx THEN "Disconnected" ELSE "Empty"
       IN  /\ calls' = Append(calls, Call("rx.try_recv", <<"reporter">>, res))
           /\ IF res # "Disconnected"
              THEN /\ reporter' = "notify"
                   /\ channel' = [channel EXCEPT !.queue = IF res = "Ok" THEN @ - 1 ELSE @]
              ELSE /\ reporter' = "exited"
                   /\ channel' = [channel EXCEPT !.rx = FALSE]
    /\ UNCHANGED <<diagnostics, fn, pc, service, target, args, logs, invoked, pods, podIdx, ret,
                   barrier, notified, blocking_task_result, ticks, messages>>

\* variant of Reporter_try_recv: only a message ends the loop; with the
\* sender gone and no message the monitor waits on
Reporter_try_recv_waits_for_message ==
    /\ fn = "send_progress_on_long_task_with_message"
    /\ reporter = "try_recv"
    /\ channel.queue > 0 \/ channel.tx
    /\ LET res == IF channel.queue > 0 THEN "Ok" ELSE "Empty"
       IN  /\ calls' = Append(calls, Call("rx.try_recv", <<"reporter">>, res))
           /\ IF res = "Empty"
              THEN reporter' = "notify" /\ channel' = channel
              ELSE /\ reporter' = "exited"
                   /\ channel' = [channel EXCEPT !.rx = FALSE, !.queue = @ - 1]
    /\ UNCHANGED <<diagnostics, fn, pc, service, target, args, logs, invoked, pods, podIdx, ret,
                   barrier, notified, blocking_task_result, ticks, messages>>

\* rx.try_recv(): Ok and Disconnected leave the loop, Empty goes round again
Reporter_try_recv ==
    /\ fn = "send_progress_on_long_task_with_message"
    /\ reporter = "try_recv"
    /\ LET res == IF channel.queue > 0 THEN "Ok"
                  ELSE IF ~channel.tx THEN "Disconnected" ELSE "Empty"
       IN  /\ calls' = Append(calls, Call("rx.try_recv", <<"reporter">>, res))
           /\ IF res = "Empty"
              THEN reporter' = "notify" /\ channel' = channel
              ELSE /\ reporter' = "exited"
                   /\ channel' = [channel EXCEPT !.rx = FALSE,
                                                 !.queue = IF res = "Ok" THEN @ - 1 ELSE @]
    /\ UNCHANGED <<diagnostics, fn, pc, service, target, args, logs, invoked, pods, podIdx, ret,
                   barrier, notified, blocking_task_result, ticks, messages>>

\* the monitor thread of send_progress_for_application ----------------------

\* the closure `log`: one notification of the listeners and one log event
AppLog(msg) ==
    /\ notified' = Append(notified, Notification("deployment_in_progress"))
    /\ logs' = Append(logs, LogInfo(msg))

AppReporter_initial_query ==
    /\ fn = "send_progress_for_application"
    /\ reporter = "initial_query"
    /\ \E res \in {"Ok", "Err"} :
         /\ calls' = Append(calls, Call("get_app_deployment_info", <<"reporter">>, res))
         /\ IF res = "Ok"
            THEN AppLog("deployment is going to start")
            ELSE UNCHANGED <<diagnostics, notified, logs>>
    /\ reporter' = "deployment_start"
    /\ UNCHANGED <<diagnostics, fn, pc, service, target, args, invoked, pods, podIdx, ret,
                   channel, barrier, blocking_task_result, ticks, messages>>

AppReporter_deployment_start_wait ==
    /\ fn = "send_progress_for_application"
    /\ reporter = "deployment_start"
    /\ barrier' = barrier \cup {"reporter"}
    /\ reporter' = "deployment_start_blocked"
    /\ UNCHANGED <<diagnostics, fn, pc, service, target, args, calls, logs, invoked, pods, podIdx,
                   ret, channel, notified, blocking_task_result, ticks, messages>>

AppReporter_deployment_start_pass ==
    /\ fn = "send_progress_for_application"
    /\ reporter = "deployment_start_blocked"
    /\ Cardinality(barrier) = 2
    /\ calls' = Append(calls, Call("deployment_start.wait", <<"reporter">>, "Ok"))
    /\ reporter' = "recv_timeout"
    /\ UNCHANGED <<diagnostics, fn, pc, service, target, args, logs, invoked, pods, podIdx, ret,
                   channel, barrier, notified, blocking_task_result, ticks, messages>>

\* rx.recv_timeout(10 s): Ok and Disconnected leave the loop, Timeout starts
\* a round
AppReporter_recv_timeout ==
    /\ fn = "send_progress_for_application"
    /\ reporter = "recv_timeout"
    /\ LET res == IF channel.queue > 0 THEN "Ok"
                  ELSE IF ~channel.tx THEN "Disconnected" ELSE "Timeout"
       IN  /\ res = "Timeout" => ticks < MaxTicks
           /\ calls' = Append(calls, Call("rx.recv_timeout", <<"reporter">>, res))
           /\ IF res = "Timeout"
              THEN reporter' = "fetch" /\ channel' = channel /\ ticks' = ticks + 1
              ELSE /\ reporter' = "exited"
                   /\ channel' = [channel EXCEPT !.rx = FALSE,
                                                 !.queue = IF res = "Ok" THEN @ - 1 ELSE @]
                   /\ ticks' = ticks
    /\ UNCHANGED <<diagnostics, fn, pc, service, target, args, logs, invoked, pods, podIdx, ret,
                   barrier, notified, blocking_task_result, messages>>

\* get_app_deployment_info, then format_app_deployment_info: some messages
AppReporter_fetch ==
    /\ fn = "send_progress_for_application"
    /\ reporter = "fetch"
    /\ \E res \in {"Ok", "Err"} :
         /\ calls' = Append(calls, Call("get_app_deployment_info", <<"reporter">>, res))
         /\ IF res = "Err"
            THEN /\ AppLog("Error while retrieving deployment information")
                 /\ reporter' = "recv_timeout"
                 /\ messages' = messages
            ELSE /\ UNCHANGED <<diagnostics, notified, logs>>
                 /\ \E n \in 0..MaxMessages :
                       /\ messages' = n
                       /\ reporter' = IF n = 0 THEN "recv_timeout" ELSE "report"
    /\ UNCHANGED <<diagnostics, fn, pc, service, target, args, invoked, pods, podIdx, ret,
                   channel, barrier, blocking_task_result, ticks>>

\* for message in format_app_deployment_info(..) { log(message) }
AppReporter_report ==
    /\ fn = "send_progress_for_application"
    /\ reporter = "report"
    /\ AppLog("deployment information")
    /\ messages' = messages - 1
    /\ reporter' = IF messages = 1 THEN "recv_timeout" ELSE "report"
    /\ UNCHANGED <<diagnostics, fn, pc, service, target, args, calls, invoked, pods, podIdx, ret,
                   channel, barrier, blocking_task_result, ticks>>

----------------------------------------------------------------------------
\* Initial states

BaseService ==
    [action |-> "Create", service_type |-> "Application", stateful |-> FALSE,
     publicly_accessible |-> FALSE, is_managed |-> FALSE,
     id |-> "z1a2b3", name |-> "app", sanitized_name |-> "app-sanitized",
     selector |-> Some("appId=z1a2b3"),
     resource_expiration_in_seconds |-> None, is_dry_run_deploy |-> FALSE,
     db_type |-> "PostgreSQL", version |-> "1.2"]

BaseTarget == [namespace |-> "env-123"]

InitDispatch ==
    /\ fn = "dispatch"
    /\ \E a \in Action, st \in BOOLEAN :
         service = [BaseService EXCEPT !.action = a, !.stateful = st]
    /\ target = BaseTarget
    /\ args = <<>>

InitFqdn ==
    /\ fn = "fqdn"
    /\ \E pub \in BOOLEAN, i \in {"z1a2b3", "db"},
          n \in {"app-sanitized", "postgresqlmydb"} :
         service = [BaseService EXCEPT !.publicly_accessible = pub,
                                       !.id = i, !.sanitized_name = n]
    /\ \E ns \in {"env-123", "z9-prod"} : target = [namespace |-> ns]
    /\ \E f \in {"db.example.com", "z1a2b3.cluster.example.com"}, m \in BOOLEAN :
         args = [fqdn |-> f, is_managed |-> m]

InitDeployStateless ==
    /\ fn = "deploy_stateless_service"
    /\ \E st \in ServiceType, sel \in {None, Some("appId=z1a2b3")},
          exp \in {None, Some(3600)} :
         service = [BaseService EXCEPT !.service_type = st, !.selector = sel,
                                       !.resource_expiration_in_seconds = exp]
    /\ target = BaseTarget
    /\ args = <<>>

InitDeployStateful ==
    /\ fn = "deploy_stateful_service"
    /\ \E st \in ServiceType, m \in BOOLEAN, dry \in BOOLEAN,
          sel \in {None, Some("databaseId=z1a2b3")}, exp \in {None, Some(3600)} :
         service = [BaseService EXCEPT !.service_type = st, !.stateful = TRUE,
                                       !.is_managed = m, !.is_dry_run_deploy = dry,
                                       !.name = "mydb",
                                       !.sanitized_name = "postgresqlmydb",
                                       !.selector = sel,
                                       !.resource_expiration_in_seconds = exp]
    /\ target = BaseTarget
    /\ args = <<>>

InitDeleteStateless ==
    /\ fn = "delete_stateless_service"
    /\ \E st \in ServiceType, i \in {"z1a2b3", "db"} :
         service = [BaseService EXCEPT !.service_type = st, !.id = i]
    /\ target = BaseTarget
    /\ args = <<>>

InitDeleteStateful ==
    /\ fn = "delete_stateful_service"
    /\ \E st \in ServiceType, m \in BOOLEAN, i \in {"z1a2b3", "db"} :
         service = [BaseService EXCEPT !.service_type = st, !.stateful = TRUE,
                                       !.is_managed = m, !.id = i,
                                       !.name = "mydb",
                                       !.sanitized_name = "postgresqlmydb"]
    /\ target = BaseTarget
    /\ args = <<>>

InitScaleDownDatabase ==
    /\ fn = "scale_down_database"
    /\ \E m \in BOOLEAN, i \in {"z1a2b3", "db"} :
         service = [BaseService EXCEPT !.service_type = "Database", !.stateful = TRUE,
                                       !.is_managed = m, !.id = i,
                                       !.name = "mydb",
                                       !.sanitized_name = "postgresqlmydb"]
    /\ target = BaseTarget
    /\ \E n \in 0..MaxReplicas : args = [replicas_count |-> n]

\* Result<String, CommandError>
ResultOk(v) == [status |-> "Ok", value |-> v]
ResultErr == [status |-> "Err", value |-> ""]

InitCheckServiceVersion ==
    /\ fn = "check_service_version"
    /\ \E st \in ServiceType, v \in VersionStrings :
         service = [BaseService EXCEPT !.service_type = st, !.version = v]
    /\ target = BaseTarget
    /\ \E r \in {ResultOk(v) : v \in VersionStrings} \cup {ResultErr} :
         args = [result |-> r]

\* the result given to check_kubernetes_service_error: Ok(()) or an
\* EngineError with or without an underlying error
InitCheckKubernetesServiceError ==
    /\ fn = "check_kubernetes_service_error"
    /\ \E st \in ServiceType, db \in DatabaseType :
         /\ st # "Database" => db = "PostgreSQL"
         /\ service = [BaseService EXCEPT !.service_type = st, !.db_type = db]
    /\ target = BaseTarget
    /\ \E r \in {Ok, Err("helm_error", Some("helm.upgrade")), Err("k8s_pod_not_ready", None)},
          a \in CheckAction :
         args = [result |-> r, action_verb |-> "deployment", action |-> a]

Init ==
    /\ \/ InitDispatch
       \/ InitFqdn
       \/ InitDeployStateless
       \/ InitDeployStateful
       \/ InitDeleteStateless
       \/ InitDeleteStateful
       \/ InitScaleDownDatabase
       \/ InitCheckServiceVersion
       \/ InitCheckKubernetesServiceError
    /\ pc = "start"
    /\ calls = <<>>
    /\ logs = <<>>
    /\ invoked = <<>>
    /\ pods = <<>>
    /\ podIdx = 1
    /\ ret = NoReturn
    /\ NoProgress
    /\ diagnostics = <<>>

Next ==
    \/ StatelessService_exec_action
    \/ StatelessService_exec_check_action
    \/ StatefulService_exec_action
    \/ StatefulService_exec_check_action
    \/ Service_fqdn
    \/ Stateless_tera_context
    \/ Stateless_render_chart
    \/ Stateless_kubeconfig
    \/ Stateless_create_namespace
    \/ Stateless_helm_new
    \/ Stateless_helm_upgrade
    \/ Stateless_is_pod_ready
    \/ Sweep_get_pods
    \/ Sweep_skip_pod
    \/ Sweep_delete_pod
    \/ Sweep_return
    \/ Stateful_managed_tera_context
    \/ Stateful_render_terraform_common
    \/ Stateful_render_terraform_resource
    \/ Stateful_render_external_name_svc
    \/ Stateful_terraform
    \/ Stateful_tera_context
    \/ Stateful_kubeconfig
    \/ Stateful_render_chart
    \/ Stateful_render_chart_values
    \/ Stateful_create_namespace
    \/ Stateful_helm_new
    \/ Stateful_helm_upgrade
    \/ Stateful_is_pod_ready
    \/ helm_uninstall_release_kubeconfig
    \/ helm_uninstall_release_helm_new
    \/ helm_uninstall_release_uninstall
    \/ Delete_managed_tera_context
    \/ Delete_render_terraform_common
    \/ Delete_render_terraform_resource
    \/ Delete_render_external_name_svc
    \/ Delete_render_external_name_svc_in_workspace
    \/ Delete_terraform_destroy
    \/ delete_terraform_tfstate_secret_kubeconfig
    \/ delete_terraform_tfstate_secret_delete_secret
    \/ scale_down_database_managed
    \/ scale_down_database_kubeconfig
    \/ scale_down_database_scale_replicas
    \/ check_service_version_match
    \/ check_service_version_mismatch
    \/ check_service_version_new_result
    \/ check_service_version_unsupported
    \/ check_kubernetes_service_error_announce
    \/ check_kubernetes_service_error_succeeded
    \/ check_kubernetes_service_error_report
    \/ Gather_kubeconfig
    \/ Gather_logs
    \/ Gather_pods
    \/ Gather_events
    \/ check_kubernetes_service_error_debug

Spec == Init /\ [][Next]_vars

\* the progress wrappers: a wrapper is called with an action and, for the
\* generic one, an optional waiting message
InitProgress ==
    /\ fn \in ProgressWrappers
    /\ service = BaseService
    /\ target = BaseTarget
    /\ \E a \in Action, m \in {None, Some("deployment is in progress...")} :
         /\ fn = "send_progress_for_application" => m = None
         /\ args = [action |-> a, waiting_message |-> m]
    /\ pc = "start"
    /\ calls = <<>>
    /\ logs = <<>>
    /\ invoked = <<>>
    /\ pods = <<>>
    /\ podIdx = 1
    /\ ret = NoReturn
    /\ NoProgress
    /\ diagnostics = <<>>

NextProgress ==
    \/ Wrapper_spawn
    \/ Wrapper_deployment_start_wait
    \/ Wrapper_deployment_start_pass
    \/ Wrapper_long_task
    \/ Wrapper_send
    \/ Wrapper_return
    \/ Reporter_notify
    \/ Reporter_sleep
    \/ Reporter_try_recv
    \/ AppReporter_initial_query
    \/ AppReporter_deployment_start_wait
    \/ AppReporter_deployment_start_pass
    \/ AppReporter_recv_timeout
    \/ AppReporter_fetch
    \/ AppReporter_report

SpecProgress == InitProgress /\ [][NextProgress]_vars

\* the steps of the monitor thread
ReporterNext ==
    \/ Reporter_notify
    \/ Reporter_sleep
    \/ Reporter_try_recv
    \/ AppReporter_initial_query
    \/ AppReporter_deployment_start_wait
    \/ AppReporter_deployment_start_pass
    \/ AppReporter_recv_timeout
    \/ AppReporter_fetch
    \/ AppReporter_report

\* every function of the model: the deployers and the progress wrappers
InitAll == Init \/ InitProgress
NextAll == Next \/ NextProgress
SpecAll == InitAll /\ [][NextAll]_vars

\* a spawned monitor thread is scheduled: its sleeps and waits end and the
\* queries it makes return
FairProgress == SpecProgress /\ WF_vars(ReporterNext)

----------------------------------------------------------------------------
\* Observations used by the properties

\* the calls made by dispatch invocation v, and the handlers they name
CallsOf(v) == SubSeq(calls, v.first, v.last)
HandlersOf(v) == [i \in 1..Len(CallsOf(v)) |-> CallsOf(v)[i].op]

\* the result a dispatch returns when its single handler call returned res
HandlerResult(c) == IF c.res = "Ok" THEN Ok ELSE Err(c.op, None)

LastCall == calls[Len(calls)]

ReadyPoll == "kubectl_exec_is_pod_ready_with_retry"

\* the function under execution is a chart-release deploy
ReleaseDeploy ==
    \/ fn = "deploy_stateless_service"
    \/ fn = "deploy_stateful_service" /\ ~service.is_managed

\* the step of the deploy algorithm a collaborator call belongs to
StepOf(c) ==
    CASE c.op = Render -> "render"
      [] c.op = "kubectl_exec_create_namespace" -> "namespace"
      [] c.op = "helm.upgrade" -> "upgrade"
      [] c.op \in {"kubectl_exec_get_pods", "kubectl_exec_delete_pod"} -> "sweep"
      [] c.op = ReadyPoll -> "ready"
      [] OTHER -> "setup"

StepRank(k) ==
    CASE k = "render" -> 1
      [] k = "namespace" -> 2
      [] k = "upgrade" -> 3
      [] k = "sweep" -> 4
      [] k = "ready" -> 5

IsAlgorithmStep(c) == StepOf(c) # "setup"

\* the steps of the deploy algorithm taken so far, in order
StepsTaken == SelectSeq(calls, IsAlgorithmStep)

CountStep(k) == Cardinality({i \in 1..Len(StepsTaken) : StepOf(StepsTaken[i]) = k})

IsDeletePod(c) == c.op = "kubectl_exec_delete_pod"
DeleteCalls == SelectSeq(calls, IsDeletePod)
DeletionsOf(pod) ==
    Cardinality({k \in 1..Len(DeleteCalls) :
                    DeleteCalls[k].args = <<pod.namespace, pod.name>>})

\* delete_pending_service has returned Ok(()) to the deploy
SweepReturnedOk ==
    \/ pc = "is_pod_ready"
    \/ \E i \in 1..Len(calls) : calls[i].op = ReadyPoll

----------------------------------------------------------------------------
\* Properties

\* C1: exec_action (stateless and stateful) calls exactly the handler of the
\* service's action and nothing else -- on_create for Create, on_pause for
\* Pause, on_delete for Delete -- and returns that handler's result; for
\* Nothing it calls no handler and returns Ok.
C1_ExecActionDispatchesOneHandler ==
    \A i \in 1..Len(invoked) :
        LET v == invoked[i] IN
        v.method = "exec_action" =>
            /\ service.action = "Create" => HandlersOf(v) = <<"on_create">>
            /\ service.action = "Pause" => HandlersOf(v) = <<"on_pause">>
            /\ service.action = "Delete" => HandlersOf(v) = <<"on_delete">>
            /\ service.action = "Nothing" => HandlersOf(v) = <<>> /\ v.ret = Ok
            /\ service.action # "Nothing" => v.ret = HandlerResult(CallsOf(v)[1])

C1_Witness ==
    \E i \in 1..Len(invoked) :
        /\ invoked[i].method = "exec_action"
        /\ invoked[i].stateful
        /\ service.action = "Delete"
        /\ invoked[i].ret.status = "Err"

\* C2: exec_check_action (stateless and stateful) calls exactly the check of
\* the service's action -- on_create_check, on_pause_check, on_delete_check --
\* and returns its result, calls no action handler, and for Nothing calls no
\* check and returns Ok.
C2_ExecCheckActionDispatchesOneCheck ==
    \A i \in 1..Len(invoked) :
        LET v == invoked[i] IN
        v.method = "exec_check_action" =>
            /\ service.action = "Create" => HandlersOf(v) = <<"on_create_check">>
            /\ service.action = "Pause" => HandlersOf(v) = <<"on_pause_check">>
            /\ service.action = "Delete" => HandlersOf(v) = <<"on_delete_check">>
            /\ service.action = "Nothing" => HandlersOf(v) = <<>> /\ v.ret = Ok
            /\ service.action # "Nothing" => v.ret = HandlerResult(CallsOf(v)[1])
            /\ \A k \in 1..Len(CallsOf(v)) : CallsOf(v)[k].op \notin ActionHandlers

C2_Witness ==
    \E i \in 1..Len(invoked) :
        /\ invoked[i].method = "exec_check_action"
        /\ ~invoked[i].stateful
        /\ service.action = "Pause"
        /\ invoked[i].ret.status = "Err"

\* C3 as claimed: an action handler is called only after the corresponding
\* check has been called for that service.
C3_HandlerOnlyAfterCheck ==
    \A i \in 1..Len(calls) :
        calls[i].op \in ActionHandlers =>
            \E j \in 1..(i - 1) : calls[j].op = calls[i].op \o "_check"

\* C3 amended: the dispatch does not order check and handler.  exec_action
\* calls the handler whether or not a check has run and never calls a check;
\* a check is called by exec_check_action only; and whenever a check and a
\* handler have both been called for a service, they belong to the same
\* action.
C3_CheckAndHandlerDispatchedSeparately ==
    /\ \A i \in 1..Len(invoked) :
         invoked[i].method = "exec_action" =>
            /\ service.action # "Nothing" => Len(CallsOf(invoked[i])) = 1
            /\ \A k \in 1..Len(CallsOf(invoked[i])) :
                 CallsOf(invoked[i])[k].op \notin CheckHandlers
    /\ \A k \in 1..Len(calls) :
         calls[k].op \in CheckHandlers =>
            \E i \in 1..Len(invoked) :
                /\ invoked[i].method = "exec_check_action"
                /\ invoked[i].first <= k /\ k <= invoked[i].last
    /\ \A i, j \in 1..Len(calls) :
         calls[i].op \in ActionHandlers /\ calls[j].op \in CheckHandlers =>
            calls[j].op = calls[i].op \o "_check"

\* the handler has run first, its check afterwards
C3_Witness ==
    /\ Len(calls) >= 2
    /\ calls[1].op = "on_create"
    /\ calls[2].op = "on_create_check"

\* C4: fqdn returns, for every input, the given fqdn when the service is
\* publicly accessible (whatever is_managed is), "<id>-dns.<namespace>.svc.
\* cluster.local" when it is not and is_managed holds, and "<sanitized_name>.
\* <namespace>.svc.cluster.local" when it is not and is_managed does not hold.
C4_FqdnByAccessibilityAndManaged ==
    fn = "fqdn" =>
        /\ pc = "start" => ENABLED Service_fqdn
        /\ pc = "done" =>
            /\ ret.status = "Value"
            /\ service.publicly_accessible => ret.value = args.fqdn
            /\ ~service.publicly_accessible /\ args.is_managed =>
                 ret.value = service.id \o "-dns." \o target.namespace
                                \o ".svc.cluster.local"
            /\ ~service.publicly_accessible /\ ~args.is_managed =>
                 ret.value = service.sanitized_name \o "." \o target.namespace
                                \o ".svc.cluster.local"
            /\ ( /\ ~service.publicly_accessible /\ ~args.is_managed
                 /\ service.sanitized_name = "app-sanitized"
                 /\ target.namespace = "env-123" ) =>
                 ret.value = "app-sanitized.env-123.svc.cluster.local"
            /\ ( /\ ~service.publicly_accessible /\ args.is_managed
                 /\ service.id = "z1a2b3"
                 /\ target.namespace = "env-123" ) =>
                 ret.value = "z1a2b3-dns.env-123.svc.cluster.local"

C4_Witness ==
    /\ fn = "fqdn"
    /\ pc = "done"
    /\ ~service.publicly_accessible
    /\ ~args.is_managed
    /\ ret.value = "app-sanitized.env-123.svc.cluster.local"

\* C5: in a chart-release deploy that returns Ok the steps happen in the
\* order rendering (into the workspace directory), namespace creation, chart
\* upgrade, Pending-pod sweep,
\* readiness poll -- each of them happens, namespace creation, upgrade and
\* poll once -- and every call but the last was made after the previous one
\* had returned without error.
C5_SuccessfulDeployStepOrder ==
    (ReleaseDeploy /\ pc = "done" /\ ret = Ok) =>
        /\ \A i, j \in 1..Len(StepsTaken) :
             i < j => StepRank(StepOf(StepsTaken[i])) <= StepRank(StepOf(StepsTaken[j]))
        /\ CountStep("render") >= 1
        /\ \A i \in 1..Len(calls) :
             calls[i].op = Render => calls[i].args[2] = workspace_directory(service)
        /\ CountStep("namespace") = 1
        /\ CountStep("upgrade") = 1
        /\ CountStep("sweep") >= 1
        /\ CountStep("ready") = 1
        /\ \A i \in 1..Len(calls) : calls[i].res # "Err"

C5_Witness ==
    /\ fn = "deploy_stateful_service"
    /\ ~service.is_managed
    /\ pc = "done"
    /\ ret = Ok
    /\ Len(DeleteCalls) >= 1

\* C6: in a chart-release deploy, a step that fails (its call returns an
\* error) is the last call made and the deploy returns an error: no later
\* step is invoked.
C6_FailureAbortsDeploy ==
    ReleaseDeploy =>
        \A i \in 1..Len(calls) :
            calls[i].res = "Err" =>
                /\ i = Len(calls)
                /\ pc = "done"
                /\ ret.status = "Err"

\* the upgrade failed: no pod listed or deleted, readiness not polled
C6_Witness ==
    /\ ReleaseDeploy
    /\ pc = "done"
    /\ ret.status = "Err"
    /\ LastCall.op = "helm.upgrade"
    /\ LastCall.res = "Err"
    /\ CountStep("sweep") = 0
    /\ CountStep("ready") = 0

\* C7 as claimed: deploy_stateless_service returns Ok only when the readiness
\* poll reported a ready pod.
C7_StatelessOkOnlyIfReady ==
    (fn = "deploy_stateless_service" /\ pc = "done" /\ ret = Ok) =>
        /\ LastCall.op = ReadyPoll
        /\ LastCall.res = "Ok(Some(true))"

\* C8: the non-managed branch of deploy_stateful_service returns Ok exactly
\* when the readiness poll returned Ok(Some(true)); for any other result of
\* the poll it returns the failed-to-start error, carrying the poll's error
\* when the poll failed and no underlying error otherwise.
C8_StatefulOkIffReady ==
    (fn = "deploy_stateful_service" /\ ~service.is_managed /\ pc = "done") =>
        /\ ret = Ok <=> (LastCall.op = ReadyPoll /\ LastCall.res = "Ok(Some(true))")
        /\ (LastCall.op = ReadyPoll /\ LastCall.res # "Ok(Some(true))") =>
             /\ ret.status = "Err"
             /\ ret.kind = "database_failed_to_start_after_several_retries"
             /\ ret.underlying = IF LastCall.res = "Err" THEN Some(ReadyPoll) ELSE None

C8_Witness ==
    /\ fn = "deploy_stateful_service"
    /\ ~service.is_managed
    /\ pc = "done"
    /\ LastCall.op = ReadyPoll
    /\ LastCall.res = "Ok(None)"
    /\ ret.status = "Err"
    /\ ret.underlying = None

\* C9: delete_pending_service asks for the deletion of Pending pods of the
\* returned list only, of none twice, and when it has returned Ok every
\* Pending pod of the list has been deleted exactly once; it returns an error
\* only when listing or a deletion failed.
C9_SweepDeletesOnlyPending ==
    /\ \A k \in 1..Len(DeleteCalls) :
         \E i \in 1..Len(pods) :
            /\ DeleteCalls[k].args = <<pods[i].namespace, pods[i].name>>
            /\ pods[i].phase = "Pending"
    /\ \A i \in 1..Len(pods) : DeletionsOf(pods[i]) <= 1
    /\ SweepReturnedOk =>
         \A i \in 1..Len(pods) :
            pods[i].phase = "Pending" => DeletionsOf(pods[i]) = 1
    /\ (fn \in {"deploy_stateless_service", "deploy_stateful_service"}
          /\ pc = "done" /\ ret.kind = "k8s_service_issue") =>
         /\ LastCall.op \in {"kubectl_exec_get_pods", "kubectl_exec_delete_pod"}
         /\ LastCall.res = "Err"

\* a list with a Pending and a Running pod has been swept
C9_Witness ==
    /\ pc = "is_pod_ready"
    /\ \E i, j \in 1..Len(pods) :
         pods[i].phase = "Pending" /\ pods[j].phase = "Running"
    /\ Len(DeleteCalls) = 1

\* C10 as claimed: every chart upgrade of a release deploy has atomic
\* rollback enabled, a timeout of 600 seconds, the workspace directory as
\* chart directory, the environment's namespace and the service's selector.
C10_UpgradeIsAtomicWithTimeout ==
    \A i \in 1..Len(calls) :
        calls[i].op = "helm.upgrade" =>
            /\ calls[i].args.atomic = TRUE
            /\ calls[i].args.timeout_seconds = 600
            /\ calls[i].args.chart_dir = workspace_directory(service)
            /\ calls[i].args.namespace = target.namespace
            /\ calls[i].args.selector = service.selector


\* a rendering of src into dst has returned Ok before call k
RenderedBefore(src, dst, k) ==
    \E i \in 1..(k - 1) :
        /\ calls[i].op = Render
        /\ calls[i].args = <<src, dst>>
        /\ calls[i].res = "Ok"

\* C11 as claimed: in a release deploy (stateless or stateful non-managed)
\* the upgrade is given <workspace>/q-values.yaml exactly when the service
\* is a database, and for a database the per-database values directory has
\* been rendered into the workspace, after the chart directory, before the
\* upgrade.
C11_ValuesFileAndOverlayForDatabase ==
    ReleaseDeploy =>
        \A k \in 1..Len(calls) :
            calls[k].op = "helm.upgrade" =>
                /\ calls[k].args.value_files =
                     IF service.service_type = "Database"
                     THEN <<workspace_directory(service) \o "/q-values.yaml">>
                     ELSE <<>>
                /\ service.service_type = "Database" =>
                     \E j \in 1..(k - 1) :
                        /\ calls[j].op = Render
                        /\ calls[j].args = <<helm_chart_values_dir(service),
                                             workspace_directory(service)>>
                        /\ calls[j].res = "Ok"
                        /\ RenderedBefore(helm_chart_dir(service),
                                          workspace_directory(service), j)


\* C12: in a release deploy the namespace is created in the target
\* namespace with the single label ttl = <expiration in seconds> when the
\* context defines a resource expiration, and with no labels otherwise.
C12_NamespaceTtlLabelIffExpiration ==
    ReleaseDeploy =>
        \A k \in 1..Len(calls) :
            calls[k].op = "kubectl_exec_create_namespace" =>
                LET labels == calls[k].args[2]
                    expiration == service.resource_expiration_in_seconds
                IN  /\ calls[k].args[1] = target.namespace
                    /\ IsSome(labels) <=> IsSome(expiration)
                    /\ IsSome(expiration) =>
                         /\ Len(labels[1]) = 1
                         /\ labels[1][1].name = "ttl"
                         /\ labels[1][1].value = ToString(expiration[1])
                    /\ ~IsSome(expiration) => labels = None

C12_Witness ==
    /\ ReleaseDeploy
    /\ IsSome(service.resource_expiration_in_seconds)
    /\ \E k \in 1..Len(calls) :
          /\ calls[k].op = "kubectl_exec_create_namespace"
          /\ calls[k].res = "Ok"
          /\ calls[k].args[2] = Some(<<[name |-> "ttl", value |-> "3600"]>>)


\* the collaborators of each strategy
ProvisionerOps == {"terraform_init_validate_plan_apply", "terraform_init_validate_destroy"}
SecretDeletion == "kubectl_exec_delete_secret"
ChartReleaseOps == {"Helm::new", "helm.upgrade", "helm.uninstall", "kubectl_exec_create_namespace", "kubectl_exec_get_pods", "kubectl_exec_delete_pod", ReadyPoll}
OpsCalled == {calls[k].op : k \in 1..Len(calls)}

\* C13: deploy_stateful_service and delete_stateful_service follow one
\* strategy, chosen by is_managed_service(): a managed service reaches the
\* provisioner (and the secret deletion, on delete only) and never the
\* chart manager, the namespace creation, the pod sweep or the readiness
\* poll; a non-managed service never reaches the provisioner or the secret
\* deletion.
C13_OneStrategyByIsManaged ==
    fn \in {"deploy_stateful_service", "delete_stateful_service"} =>
        /\ service.is_managed =>
             /\ OpsCalled \cap ChartReleaseOps = {}
             /\ SecretDeletion \in OpsCalled => fn = "delete_stateful_service"
        /\ ~service.is_managed =>
             /\ OpsCalled \cap ProvisionerOps = {}
             /\ SecretDeletion \notin OpsCalled
        /\ ~(OpsCalled \cap ProvisionerOps # {} /\ OpsCalled \cap ChartReleaseOps # {})

C13_Witness ==
    /\ fn = "delete_stateful_service"
    /\ service.is_managed
    /\ pc = "done"
    /\ "terraform_init_validate_destroy" \in OpsCalled
    /\ SecretDeletion \in OpsCalled


\* the renderings (source, destination) among the first n calls, in order
IsRender(c) == c.op = Render
RenderingsIn(n) ==
    LET renders == SelectSeq(SubSeq(calls, 1, n), IsRender)
    IN  [i \in 1..Len(renders) |-> renders[i].args]

\* the three template sets of the provisioner strategy: the shared resource
\* module, the resource-specific module, the external-name-service module
ThreeTemplateSets(s) ==
    << <<terraform_common_resource_dir_path(s), workspace_directory(s)>>,
       <<terraform_resource_dir_path(s), workspace_directory(s)>>,
       <<helm_chart_external_name_service_dir(s),
         workspace_directory(s) \o "/external-name-svc">> >>

ManagedDeploy == fn = "deploy_stateful_service" /\ service.is_managed
PlanApply == "terraform_init_validate_plan_apply"

\* C14: in a managed deploy the pipeline init/validate/plan/apply is invoked,
\* on the workspace and with the context's dry-run flag, only after the
\* three template sets were rendered with success in their order; a failed
\* rendering returns the template-copy error and the provisioner is not
\* invoked; a failed pipeline returns the provisioning-pipeline error; Ok is
\* returned only after the pipeline succeeded.
C14_ManagedDeployRendersThenProvisions ==
    ManagedDeploy =>
        /\ \A k \in 1..Len(calls) :
              /\ calls[k].op = PlanApply =>
                    /\ calls[k].args = <<workspace_directory(service),
                                         service.is_dry_run_deploy>>
                    /\ RenderingsIn(k - 1) = ThreeTemplateSets(service)
                    /\ \A i \in 1..(k - 1) : calls[i].res = "Ok"
                    /\ calls[k].res = "Err" =>
                          /\ ret.status = "Err"
                          /\ ret.kind = "terraform_error_while_executing_pipeline"
              /\ (calls[k].op = Render /\ calls[k].res = "Err") =>
                    /\ pc = "done"
                    /\ ret = CannotCopy
                    /\ PlanApply \notin OpsCalled
        /\ ret.status = "Ok" =>
              /\ Len(calls) > 0
              /\ LastCall.op = PlanApply
              /\ LastCall.res = "Ok"

C14_Witness ==
    /\ ManagedDeploy
    /\ service.is_dry_run_deploy
    /\ pc = "done"
    /\ ret = Ok
    /\ RenderingsIn(Len(calls)) = ThreeTemplateSets(service)


ManagedDelete == fn = "delete_stateful_service" /\ service.is_managed
Destroy == "terraform_init_validate_destroy"
DestroyResult(res) == \E k \in 1..Len(calls) : calls[k].op = Destroy /\ calls[k].res = res
SecretDeletionResult(res) ==
    \E k \in 1..Len(calls) : calls[k].op = SecretDeletion /\ calls[k].res = res

\* C15: in a managed delete the secret tfstate-default-<service id> of the
\* target namespace is deleted only after the destroy pipeline succeeded;
\* after a successful destroy the call returns Ok whatever the secret
\* deletion does; after a failed destroy it returns the destroy-pipeline
\* error and attempts no secret deletion.
C15_SecretDeletedOnlyAfterDestroy ==
    ManagedDelete =>
        /\ \A k \in 1..Len(calls) :
              calls[k].op = SecretDeletion =>
                 /\ calls[k].args = <<target.namespace,
                                      "tfstate-default-" \o service.id>>
                 /\ \E i \in 1..(k - 1) :
                       calls[i].op = Destroy /\ calls[i].res = "Ok"
        /\ (DestroyResult("Ok") /\ pc = "done") => ret = Ok
        /\ DestroyResult("Err") =>
              /\ pc = "done"
              /\ ret.status = "Err"
              /\ ret.kind = "terraform_error_while_executing_destroy_pipeline"
              /\ LastCall.op = Destroy
              /\ SecretDeletion \notin OpsCalled

C15_Witness ==
    /\ ManagedDelete
    /\ pc = "done"
    /\ DestroyResult("Ok")
    /\ SecretDeletionResult("Err")
    /\ ret = Ok


\* the event logged before the secret deletion is attempted
SecretDeletionAnnounced == LogInfo("Deleting secret containing tfstates")

\* C16 as claimed: in a managed delete, once the secret deletion has failed
\* after a successful destroy, the call returns Ok and the logger has
\* received an event recording that failure (an event other than the
\* announcement made before the attempt).
C16_SecretDeletionFailureIsLogged ==
    (ManagedDelete /\ pc = "done" /\ DestroyResult("Ok") /\ SecretDeletionResult("Err")) =>
        /\ ret = Ok
        /\ \E i \in 1..Len(logs) : logs[i] # SecretDeletionAnnounced


\* C17 as claimed: when a managed delete invokes the destroy pipeline it has
\* rendered the same sequence of (source, destination) pairs as a managed
\* deploy of the same service has when it invokes its pipeline, the three
\* template sets, and nothing else.
C17_DeleteRendersSameThreeTemplateSets ==
    (ManagedDeploy \/ ManagedDelete) =>
        \A k \in 1..Len(calls) :
            calls[k].op \in ProvisionerOps =>
                RenderingsIn(k - 1) = ThreeTemplateSets(service)


Uninstall == "helm.uninstall"
Uninstalls == SelectSeq(calls, LAMBDA c : c.op = Uninstall)
ClusterMutations == {"helm.upgrade", "kubectl_exec_create_namespace", "kubectl_exec_delete_pod", SecretDeletion} \cup ProvisionerOps
CallResult(op, res) == \E k \in 1..Len(calls) : calls[k].op = op /\ calls[k].res = res

\* the one uninstall of a release deletion: the service's release name in
\* the target namespace
UninstallOfRelease(c) ==
    /\ c.args.release_name = service.name \o "-" \o service.id
    /\ c.args.namespace = target.namespace

\* C18 as claimed: delete_stateless_service and the non-managed
\* delete_stateful_service return after exactly one chart uninstall for the
\* release name in the target namespace, no rendering and no other cluster
\* mutation, with Ok when the uninstall succeeded and a chart-manager error
\* otherwise.
C18_ExactlyOneUninstall ==
    (calls_helm_uninstall_release /\ pc = "done") =>
        /\ Len(Uninstalls) = 1
        /\ UninstallOfRelease(Uninstalls[1])
        /\ OpsCalled \cap (ClusterMutations \cup {Render}) = {}
        /\ IF Uninstalls[1].res = "Ok"
           THEN ret = Ok
           ELSE ret.status = "Err" /\ ret.kind = "helm_error"

\* C18, amended: the non-managed delete_stateful_service and
\* delete_stateless_service make the same calls with the same outcome: the
\* kubeconfig path, the chart manager, then at most one uninstall, for the
\* release name in the target namespace, with no rendering, no other
\* cluster mutation and no log; the uninstall is issued exactly when both
\* set-up calls succeeded; the call returns Ok iff the uninstall succeeded,
\* a chart-manager error when the uninstall or the construction of the
\* chart manager failed, and the kubeconfig error of the cluster accessor
\* when the path could not be resolved.
C18_DeleteIsOneUninstallAfterSetUp ==
    calls_helm_uninstall_release =>
        /\ \A k \in 1..Len(calls) :
              calls[k].op = <<"get_kubeconfig_file_path", "Helm::new", Uninstall>>[k]
        /\ Len(calls) <= 3
        /\ \A k \in 1..(Len(calls) - 1) : calls[k].res = "Ok"
        /\ \A i \in 1..Len(Uninstalls) : UninstallOfRelease(Uninstalls[i])
        /\ logs = <<>>
        /\ pc = "done" =>
              /\ Len(Uninstalls) = 1 <=>
                    /\ CallResult("get_kubeconfig_file_path", "Ok")
                    /\ CallResult("Helm::new", "Ok")
              /\ ret = Ok <=> CallResult(Uninstall, "Ok")
              /\ (CallResult(Uninstall, "Err") \/ CallResult("Helm::new", "Err")) =>
                    ret.status = "Err" /\ ret.kind = "helm_error"
              /\ CallResult("get_kubeconfig_file_path", "Err") =>
                    ret = Err("get_kubeconfig_file_path", None)

C18_Witness ==
    /\ fn = "delete_stateful_service"
    /\ ~service.is_managed
    /\ pc = "done"
    /\ CallResult(Uninstall, "Err")
    /\ ret.kind = "helm_error"


\* the executions of the wrapped operation, the sends and the receives on
\* the stop channel
LongTasks == SelectSeq(calls, LAMBDA c : c.op = "long_task")
Sends == SelectSeq(calls, LAMBDA c : c.op = "tx.send")
ReceiveOps == {"rx.try_recv", "rx.recv_timeout"}
Receives == SelectSeq(calls, LAMBDA c : c.op \in ReceiveOps)

\* C19: a progress wrapper runs the wrapped operation at most once, on the
\* calling path; when it returns, the operation has run exactly once and the
\* value returned is the value the operation returned, success or error,
\* wherever the reporter is; nothing is returned before.
C19_WrappedOperationOnceResultReturned ==
    fn \in ProgressWrappers =>
        /\ Len(LongTasks) <= 1
        /\ \A i \in 1..Len(LongTasks) : LongTasks[i].args = <<"main">>
        /\ pc = "done" =>
              /\ Len(LongTasks) = 1
              /\ ret = blocking_task_result
              /\ LongTasks[1].res = "Ok" => ret = Ok
              /\ LongTasks[1].res = "Err" => ret = Err("long_task", None)
              /\ LongTasks[1].res \in {"Ok", "Err"}
        /\ pc # "done" => ret = NoReturn

C19_Witness ==
    /\ fn = "send_progress_for_application"
    /\ pc = "done"
    /\ ret = Err("long_task", None)
    /\ reporter = "report"
    /\ Len(notified) > 0


\* C20: on the stop channel of a progress wrapper at most one message is
\* sent; it is sent by the calling path, after the wrapped operation has
\* returned, and by the time the wrapper returns exactly one send has been
\* made; only the reporter receives, it never sends, and it receives at most
\* one message.
C20_StopChannelUsedOnce ==
    fn \in ProgressWrappers =>
        /\ Len(Sends) <= 1
        /\ channel.queue <= 1
        /\ \A k \in 1..Len(calls) :
              /\ calls[k].op = "tx.send" =>
                    /\ calls[k].args = <<"main">>
                    /\ \E i \in 1..(k - 1) :
                          calls[i].op = "long_task" /\ calls[i].res \in {"Ok", "Err"}
              /\ calls[k].op \in ReceiveOps => calls[k].args = <<"reporter">>
        /\ pc = "done" => Len(Sends) = 1
        /\ Len(SelectSeq(Receives, LAMBDA c : c.res = "Ok")) <= 1

C20_Witness ==
    /\ fn \in ProgressWrappers
    /\ pc = "done"
    /\ Len(Sends) = 1
    /\ Sends[1].res = "Ok"
    /\ reporter = "exited"
    /\ LastCall.op \in ReceiveOps
    /\ LastCall.res = "Ok"


\* the timer of the monitor has expired once the monitor is past its sleep
\* (it checks the channel) or its wait on the channel has timed out
IsTickExpiry(c) ==
    \/ c.op = "rx.try_recv"
    \/ c.op = "rx.recv_timeout" /\ c.res = "Timeout"

\* C21 as claimed: for an action Create, Pause or Delete, when a tick of
\* the reporter has expired before the wrapped operation completes, at
\* least one progress event was delivered to the listeners before that
\* completion.
C21_EventBeforeCompletionOfLongOperation ==
    (fn \in ProgressWrappers /\ args.action # "Nothing") =>
        \A k \in 1..Len(calls) :
            (/\ calls[k].op = "long_task"
             /\ \E i \in 1..(k - 1) : IsTickExpiry(calls[i]))
            => \E n \in 1..Len(notified) : notified[n].at \in BeforeCompletion


\* positions of the calling path after the stop message was sent
AfterSend == {"return", "done"}
EventsAfterSend == SelectSeq(notified, LAMBDA n : n.at \in AfterSend)
\* the calls made after the (first) send on the stop channel
CallsAfterSend ==
    IF Len(Sends) = 0 THEN <<>>
    ELSE LET s == CHOOSE k \in 1..Len(calls) :
                     /\ calls[k].op = "tx.send"
                     /\ \A j \in 1..(k - 1) : calls[j].op # "tx.send"
         IN  SubSeq(calls, s + 1, Len(calls))
ReceivesAfterSend == SelectSeq(CallsAfterSend, LAMBDA c : c.op \in ReceiveOps)
QueriesAfterSend == SelectSeq(CallsAfterSend, LAMBDA c : c.op = "get_app_deployment_info")

\* C22: once the stop message is sent, the reporter leaves its loop at its
\* next look at the channel and starts no new round: the generic reporter
\* emits at most one more event, the application reporter at most the
\* messages of the round it was in (one query, its messages), and the first
\* receive after the send gets the message and ends the reporter.
C22_NoEventAfterStopObserved ==
    (fn \in ProgressWrappers /\ Len(Sends) = 1 /\ Sends[1].res = "Ok") =>
        /\ Len(ReceivesAfterSend) <= 1
        /\ \A i \in 1..Len(ReceivesAfterSend) : ReceivesAfterSend[i].res = "Ok"
        /\ Len(ReceivesAfterSend) = 1 => reporter = "exited"
        /\ reporter = "exited" => LastCall.op \in ReceiveOps
        /\ fn = "send_progress_on_long_task_with_message" =>
              Len(EventsAfterSend) <= 1
        /\ fn = "send_progress_for_application" =>
              /\ Len(QueriesAfterSend) <= 1
              /\ Len(EventsAfterSend) <= MaxMessages

C22_Witness ==
    /\ fn = "send_progress_on_long_task_with_message"
    /\ Len(EventsAfterSend) = 1
    /\ reporter = "exited"
    /\ Len(ReceivesAfterSend) = 1


\* positions of the calling path before the wrapped operation starts, and
\* of the application monitor before it has passed the barrier
BeforeOperation == {"start", "deployment_start", "deployment_start_blocked"}
BeforeBarrierPassed == {"none", "spawn_failed", "initial_query", "deployment_start", "deployment_start_blocked"}
Queries == SelectSeq(calls, LAMBDA c : c.op = "get_app_deployment_info")

\* C23: in send_progress_for_application, once the wrapped operation has
\* started the monitor has made its initial query and arrived at the
\* barrier, and when that query succeeded its pre-operation report was
\* emitted before the operation started; as long as the monitor has not
\* passed the barrier it has emitted nothing but that report and has not
\* waited on the channel.
C23_InitialReportBeforeOperation ==
    fn = "send_progress_for_application" =>
        /\ pc \notin BeforeOperation =>
              /\ "reporter" \in barrier
              /\ reporter \notin {"none", "spawn_failed", "initial_query", "deployment_start"}
              /\ Len(Queries) >= 1
              /\ Queries[1].res = "Ok" =>
                    /\ Len(notified) >= 1
                    /\ notified[1].at \in BeforeOperation
                    /\ logs[1] = LogInfo("deployment is going to start")
        /\ reporter \in BeforeBarrierPassed =>
              /\ ticks = 0
              /\ Len(Receives) = 0
              /\ Len(Queries) <= 1
              /\ Len(notified) <= 1
              /\ Len(notified) = 1 => Queries[1].res = "Ok"
        /\ \A n \in 1..Len(notified) :
              (n > 1 \/ (Len(Queries) >= 1 /\ Queries[1].res = "Err")) =>
                 \E k \in 1..Len(calls) : calls[k] = Call("deployment_start.wait", <<"reporter">>, "Ok")

C23_Witness ==
    /\ fn = "send_progress_for_application"
    /\ pc = "long_task"
    /\ reporter = "deployment_start_blocked"
    /\ Queries[1].res = "Ok"
    /\ Len(notified) = 1


\* the monitor thread exists and has been told to stop: the stop message was
\* sent to it, or the sending end was dropped
ReporterSpawned == reporter \notin {"none", "spawn_failed"}
StopSignalled == Len(Sends) = 1 \/ ~channel.tx

\* C24: a spawned reporter terminates once the stop message has been sent
\* or the sending end of the channel has gone, with or without a message.
C24_ReporterTerminatesOnStop ==
    (fn \in ProgressWrappers /\ ReporterSpawned /\ StopSignalled) ~> (reporter = "exited")

C24_Witness ==
    /\ fn \in ProgressWrappers
    /\ pc = "panicked"
    /\ Len(Sends) = 0
    /\ reporter = "exited"
    /\ LastCall.res = "Disconnected"


Spawns == SelectSeq(calls, LAMBDA c : c.op = "thread::Builder::spawn")

\* C25: a progress wrapper spawns once, from the calling path, as its first
\* step, and never again: there is at most one reporter, which spawns
\* nothing; no other function (dispatch, deploy, delete, scale, sweep)
\* spawns anything.
C25_OneReporterPerWrapperCall ==
    /\ Len(Spawns) <= 1
    /\ \A i \in 1..Len(Spawns) : Spawns[i].args = <<"main">>
    /\ fn \in ProgressWrappers =>
          /\ pc # "start" <=> Len(Spawns) = 1
          /\ ReporterSpawned <=> (Len(Spawns) = 1 /\ Spawns[1].res = "Ok")
    /\ fn \notin ProgressWrappers =>
          /\ Len(Spawns) = 0
          /\ reporter = "none"

C25_Witness ==
    /\ fn \in ProgressWrappers
    /\ pc = "done"
    /\ Len(Spawns) = 1
    /\ reporter = "exited"


\* C26: once send_progress_for_application has sent the stop message
\* nothing holds its return back, wherever the reporter is; so the reporter
\* may still emit after the wrapper has returned (the witness: an event
\* made when the calling path was already at "done").
C26_ReturnDoesNotWaitForReporter ==
    (fn = "send_progress_for_application" /\ pc = "return") =>
        /\ Len(Sends) = 1
        /\ ENABLED Wrapper_return

C26_Witness ==
    /\ fn = "send_progress_for_application"
    /\ pc = "done"
    /\ ret = blocking_task_result
    /\ \E n \in 1..Len(notified) : notified[n].at = "done"


CheckedVersion == fn = "check_service_version" /\ pc = "done"
Requested == VersionsNumber_from_str(service.version)
Observed == VersionsNumber_from_str(args.result.value)

\* C27: check_service_version on Ok(observed), observed parsing: if observed
\* is the service's version the result has no message, requested = matched
\* and no listener was notified; if not, exactly one Info
\* deployment_in_progress notification with the advisory message was sent
\* and the result carries that non-empty message, the observed version as
\* matched and the service's version as requested.
C27_VersionCheckResult ==
    (CheckedVersion /\ args.result.status = "Ok" /\ IsSome(Observed)) =>
        IF service.version = args.result.value
        THEN /\ ret.status = "Value"
             /\ ret.value.message = None
             /\ ret.value.requested_version = ret.value.matched_version
             /\ notified = <<>>
        ELSE /\ Len(notified) = 1
             /\ notified[1].method = "deployment_in_progress"
             /\ notified[1].level = "Info"
             /\ IsSome(notified[1].message)
             /\ notified[1].message[1] # ""
             /\ IsSome(Requested) <=> ret.status = "Value"
             /\ ret.status = "Value" =>
                   /\ ret.value.message = notified[1].message
                   /\ ret.value.matched_version = Observed[1]
                   /\ ret.value.requested_version = Requested[1]
                   /\ ret.value.matched_version # ret.value.requested_version

C27_Witness ==
    /\ CheckedVersion
    /\ service.version = "1.2"
    /\ args.result = ResultOk("1.3")
    /\ ret.status = "Value"
    /\ ret.value.matched_version = [major |-> "1", minor |-> "3"]
    /\ Len(notified) = 1

\* C28: check_service_version on Err returns the unsupported-version error,
\* never a result, after exactly one Error deployment_error notification
\* and one log of the error; on Ok, a requested or an observed version that
\* does not parse gives a version-parse error and no result.
C28_UnsupportedVersionAndParseErrors ==
    fn = "check_service_version" =>
        /\ args.result.status = "Err" =>
              /\ ret.status # "Value"
              /\ pc = "done" =>
                    /\ ret = Err("unsupported_version_error", None)
                    /\ Len(notified) = 1
                    /\ notified[1].method = "deployment_error"
                    /\ notified[1].level = "Error"
                    /\ logs = <<LogError(ret)>>
        /\ (args.result.status = "Ok" /\ (Requested = None \/ Observed = None)) =>
              /\ ret.status # "Value"
              /\ pc = "done" =>
                    /\ ret.status = "Err"
                    /\ ret.kind = "version_number_parsing_error"

C28_Witness ==
    /\ CheckedVersion
    /\ args.result = ResultOk("one.two")
    /\ service.version = "1.2"
    /\ ret = Err("version_number_parsing_error", Some("one.two"))


----------------------------------------------------------------------------
\* check_kubernetes_service_error on a failed result

FailedResult == fn = "check_kubernetes_service_error" /\ args.result.status = "Err"

GatheringOps ==
    {"get_kubeconfig_file_path", "kubectl_exec_logs", "kubectl_exec_get_pods",
     "kubectl_exec_get_json_events"}

GatheringFailed == \E i \in 1..Len(calls) : calls[i].op \in GatheringOps /\ calls[i].res = "Err"

GatheringOver ==
    /\ calls # <<>>
    /\ \/ calls[Len(calls)].res = "Err"
       \/ calls[Len(calls)].op = "kubectl_exec_get_json_events"

debug_logs_string == IF diagnostics # <<>> THEN join(diagnostics, "\n") ELSE "<no debug logs>"

SummaryOfFailure ==
    args.action_verb \o " error " \o to_lowercase(ServiceType_name(service)) \o " "
       \o service.name \o " : error => " \o args.result.kind

Announcement ==
    args.action_verb \o " " \o to_lowercase(ServiceType_name(service)) \o " " \o service.name

SuccessEvent ==
    args.action_verb \o " succeeded for " \o to_lowercase(ServiceType_name(service)) \o " "
       \o service.name

\* C29: on a failed result the listeners get, in this order, the Info
\* announcement through the in-progress method of the action, one Error
\* event with the summary of the failure, and, once the gathering of the
\* diagnostics is over, one Debug event with the diagnostics; the gathering
\* starts after the Error event, the function returns only after the Debug
\* event, it returns an error, and no success event is made.
C29_FailureEventsInOrder ==
    FailedResult =>
        /\ Len(notified) <= 3
        /\ Len(notified) >= 1 =>
              notified[1] = ProgressNotification(in_progress_of(args.action), "Info",
                                                 Some(Announcement))
        /\ Len(notified) >= 2 =>
              notified[2] = ProgressNotification(error_of(args.action), "Error",
                                                 Some(SummaryOfFailure))
        /\ Len(notified) >= 3 =>
              /\ notified[3] = ProgressNotification(error_of(args.action), "Debug",
                                                    Some(debug_logs_string))
              /\ GatheringOver
        /\ calls # <<>> => Len(notified) >= 2
        /\ ret # NoReturn <=> Len(notified) = 3
        /\ pc = "done" <=> ret # NoReturn
        /\ ret # NoReturn => ret.status = "Err"
        /\ \A i \in 1..Len(notified) : notified[i].message # Some(SuccessEvent)

C29_Witness ==
    /\ FailedResult
    /\ pc = "done"
    /\ Len(diagnostics) >= 3
    /\ Len(notified) = 3
    /\ args.action = "Pause"

\* C30: when a step of the gathering (kubeconfig, logs, pods, events) fails,
\* the failure is logged, the diagnostics are empty whatever was gathered
\* before, the Debug event is still made, with the placeholder as its text,
\* and the error returned is the k8s service issue built from the underlying
\* error of the result given to the function, never from the failed step.
C30_GatheringFailureDoesNotMask ==
    (FailedResult /\ GatheringFailed) =>
        /\ \E i \in 1..Len(logs) :
              /\ logs[i].level = "Error"
              /\ logs[i].message =
                    "error while retrieving debug logs from " \o ServiceType_name(service)
                       \o " " \o name_with_id(service) \o ": "
                       \o (IF calls[Len(calls)].op = "get_kubeconfig_file_path"
                           THEN "get_kubeconfig_file_path"
                           ELSE IF calls[Len(calls)].op = "kubectl_exec_logs"
                           THEN "k8s_get_logs_error"
                           ELSE IF calls[Len(calls)].op = "kubectl_exec_get_pods"
                           THEN "k8s_cannot_get_pods"
                           ELSE "k8s_get_json_events")
        /\ calls[Len(calls)].res = "Err"
        /\ diagnostics = <<>>
        /\ pc \in {"debug_event", "done"}
        /\ pc = "debug_event" => ENABLED check_kubernetes_service_error_debug
        /\ pc = "done" =>
              /\ Len(notified) = 3
              /\ notified[3] = ProgressNotification(error_of(args.action), "Debug",
                                                    Some("<no debug logs>"))
              /\ \E i \in 1..Len(logs) : logs[i] = LogEvent("Debug", "<no debug logs>")
              /\ ret = K8sServiceIssue(unwrap_or_default(args.result.underlying))
              /\ ret.kind \notin {"get_kubeconfig_file_path", "k8s_get_logs_error",
                                  "k8s_cannot_get_pods", "k8s_get_json_events"}
              /\ \A op \in GatheringOps : ret.underlying # Some(op)

C30_Witness ==
    /\ FailedResult
    /\ pc = "done"
    /\ args.result.underlying = Some("helm.upgrade")
    /\ ret = K8sServiceIssue("helm.upgrade")
    /\ Len(calls) = 3
    /\ calls[2].op = "kubectl_exec_logs" /\ calls[2].res = "Ok"
    /\ calls[3].op = "kubectl_exec_get_pods" /\ calls[3].res = "Err"


----------------------------------------------------------------------------
\* No retry in the deployers

Deployers ==
    {"deploy_stateless_service", "deploy_stateful_service", "delete_stateless_service",
     "delete_stateful_service"}

\* the operations of the collaborators that are not to be repeated
OnceOps ==
    {Render, "kubectl_exec_create_namespace", "helm.upgrade", Uninstall, SecretDeletion,
     ReadyPoll} \cup ProvisionerOps

\* what makes two calls the same operation: for a rendering the source and
\* the destination, for the others the operation alone
OperationOf(c) == IF c.op = Render THEN <<c.op, c.args>> ELSE <<c.op>>

Failed(c) == c.res = "Err"

\* C31: within one call of a deployer each operation of the collaborators
\* (a rendering of a source into a destination, the namespace creation, the
\* chart upgrade, the chart uninstall, a provisioner pipeline, the secret
\* deletion, the readiness poll) is invoked at most once, so that a failed
\* one is never invoked a second time.
C31_NoRetryInDeployers ==
    fn \in Deployers =>
        \A i, j \in 1..Len(calls) :
            (i < j /\ calls[i].op \in OnceOps) =>
                OperationOf(calls[i]) # OperationOf(calls[j])

\* a managed delete has returned after two renderings of one source into two
\* destinations and a failed last operation
C31_Witness ==
    /\ fn = "delete_stateful_service"
    /\ pc = "done"
    /\ \E i, j \in 1..Len(calls) :
         /\ i < j
         /\ calls[i].op = Render /\ calls[j].op = Render
         /\ calls[i].args[1] = calls[j].args[1]
         /\ calls[i].args[2] # calls[j].args[2]
    /\ Failed(calls[Len(calls)])


----------------------------------------------------------------------------
\* scale_down_database

ScaleReplicas == "kubectl_exec_scale_replicas_by_selector"
ScaleRequests == SelectSeq(calls, LAMBDA c : c.op = ScaleReplicas)

ScaleDownReturned == fn = "scale_down_database" /\ pc = "done"

\* the one scale request of the claim
ScaleRequestOfDatabase(c) ==
    c.args = [namespace |-> target.namespace, kind |-> "Statefulset",
              selector |-> "databaseId=" \o service.id,
              replicas_count |-> args.replicas_count]

ScaleReplicasError == Err("k8s_scale_replicas", Some(ScaleReplicas))

\* C33 as claimed: on a managed database scale_down_database returns Ok with
\* no call at all; on a non-managed database it issues exactly one scale
\* request, for kind Statefulset, the selector databaseId=<service id>, the
\* target namespace and the requested count, and returns the scale-replicas
\* error if that request fails.
C33_ExactlyOneScaleRequest ==
    ScaleDownReturned =>
        /\ service.is_managed => calls = <<>> /\ ret = Ok
        /\ ~service.is_managed =>
              /\ Len(ScaleRequests) = 1
              /\ ScaleRequestOfDatabase(ScaleRequests[1])
              /\ Failed(ScaleRequests[1]) => ret = ScaleReplicasError

\* C33: as claimed for a managed database; on a non-managed database at most
\* one scale request is issued, and exactly one when the kubeconfig path was
\* resolved: it is for kind Statefulset, the selector databaseId=<service
\* id>, the target namespace and the requested count, the call returns Ok
\* when it succeeds and the scale-replicas error when it fails; when the
\* kubeconfig path is not resolved no request is issued and the accessor's
\* error is returned.
C33_ScaleDownDatabase ==
    /\ fn = "scale_down_database" =>
          /\ Len(ScaleRequests) <= 1
          /\ \A i \in 1..Len(ScaleRequests) : ScaleRequestOfDatabase(ScaleRequests[i])
          /\ service.is_managed => calls = <<>>
    /\ ScaleDownReturned =>
          /\ service.is_managed => ret = Ok
          /\ ~service.is_managed =>
                /\ calls # <<>>
                /\ calls[1].op = "get_kubeconfig_file_path"
                /\ Failed(calls[1]) =>
                      /\ ScaleRequests = <<>>
                      /\ ret = Err("get_kubeconfig_file_path", None)
                /\ ~Failed(calls[1]) =>
                      /\ Len(calls) = 2
                      /\ Len(ScaleRequests) = 1
                      /\ ret = IF Failed(ScaleRequests[1]) THEN ScaleReplicasError ELSE Ok

\* a non-managed database whose scale request has failed
C33_Witness ==
    /\ ScaleDownReturned
    /\ ~service.is_managed
    /\ Len(ScaleRequests) = 1
    /\ Failed(ScaleRequests[1])
    /\ ret = ScaleReplicasError


----------------------------------------------------------------------------
\* The sweep of the Pending pods stops at the first failure

ListingFailed == CallResult("kubectl_exec_get_pods", "Err")
DeletionFailed == CallResult("kubectl_exec_delete_pod", "Err")

\* the pods of the list that come after the one of the last deletion asked
PodsAfterLastDeletion ==
    {j \in 1..Len(pods) :
        \E i \in 1..Len(pods) :
            /\ i < j
            /\ DeleteCalls[Len(DeleteCalls)].args = <<pods[i].namespace, pods[i].name>>}

\* C34: when the listing of the pods fails no deletion is asked, and when
\* the deletion of a Pending pod fails no pod that comes after it in the
\* list is deleted; in both cases the failed call is the last call of the
\* deploy, which returns the k8s service issue error made from it, and the
\* readiness is not polled.
C34_SweepStopsAtFirstFailure ==
    (ReleaseDeploy /\ (ListingFailed \/ DeletionFailed)) =>
        /\ pc = "done"
        /\ Failed(LastCall)
        /\ \A k \in 1..(Len(calls) - 1) : ~Failed(calls[k])
        /\ ret = K8sServiceIssue(LastCall.op)
        /\ ReadyPoll \notin OpsCalled
        /\ ListingFailed => DeleteCalls = <<>>
        /\ DeletionFailed =>
              /\ LastCall = DeleteCalls[Len(DeleteCalls)]
              /\ \A j \in PodsAfterLastDeletion : DeletionsOf(pods[j]) = 0

\* the first of two Pending pods could not be deleted
C34_Witness ==
    /\ ReleaseDeploy
    /\ pc = "done"
    /\ DeletionFailed
    /\ Len(pods) = 2
    /\ pods[1].phase = "Pending" /\ pods[2].phase = "Pending"
    /\ Len(DeleteCalls) = 1
    /\ PodsAfterLastDeletion = {2}


----------------------------------------------------------------------------
\* The notifications of check_kubernetes_service_error

\* the listener methods of the family of a CheckAction
FamilyOf(action) ==
    CASE action = "Deploy" -> {"deployment_in_progress", "deployment_error"}
      [] action = "Pause" -> {"pause_in_progress", "pause_error"}
      [] action = "Delete" -> {"delete_in_progress", "delete_error"}

InProgressMethods == {"deployment_in_progress", "pause_in_progress", "delete_in_progress"}
ErrorMethods == {"deployment_error", "pause_error", "delete_error"}

NotifiedMethods == [i \in 1..Len(notified) |-> notified[i].method]
NotifiedThrough(methods) == Cardinality({i \in 1..Len(notified) : notified[i].method \in methods})

CheckReturned == fn = "check_kubernetes_service_error" /\ pc = "done"

\* C37: every notification of check_kubernetes_service_error goes through a
\* method of the family of its CheckAction; when it has returned on a
\* successful result two in-progress notifications were sent, the
\* announcement then the success, no error notification, and Ok is returned;
\* on a failed result one in-progress and two error notifications were sent
\* and the k8s service issue error is returned, with the underlying error of
\* the result when it has one.
C37_NotificationsOfTheActionFamily ==
    fn = "check_kubernetes_service_error" =>
        /\ \A i \in 1..Len(notified) : notified[i].method \in FamilyOf(args.action)
        /\ (CheckReturned /\ args.result.status = "Ok") =>
              /\ NotifiedMethods = <<in_progress_of(args.action), in_progress_of(args.action)>>
              /\ notified[1].message = Some(Announcement)
              /\ notified[2].message = Some(SuccessEvent)
              /\ NotifiedThrough(ErrorMethods) = 0
              /\ ret = Ok
        /\ (CheckReturned /\ args.result.status = "Err") =>
              /\ NotifiedThrough(InProgressMethods) = 1
              /\ NotifiedThrough(ErrorMethods) = 2
              /\ NotifiedMethods = <<in_progress_of(args.action), error_of(args.action),
                                     error_of(args.action)>>
              /\ ret.status = "Err"
              /\ ret.kind = "k8s_service_issue"
              /\ IsSome(args.result.underlying) => ret.underlying = args.result.underlying

\* a deletion that succeeded has been told to the listeners
C37_Witness ==
    /\ CheckReturned
    /\ args.action = "Delete"
    /\ args.result.status = "Ok"
    /\ NotifiedMethods = <<"delete_in_progress", "delete_in_progress">>


----------------------------------------------------------------------------
\* The listener method of the application wrapper

\* C32 as claimed: every notification of send_progress_for_application, the
\* report made before the operation and the ones of the periodic rounds,
\* goes through the in-progress method of the action: deployment for Create,
\* pause for Pause, delete for Delete.
C32_AppNotificationMatchesAction ==
    (fn = "send_progress_for_application" /\ args.action # "Nothing") =>
        \A n \in 1..Len(notified) :
            Some(notified[n].method) = in_progress_method(args.action)


----------------------------------------------------------------------------
\* The calling path of the wrappers when there is no monitor thread

\* the monitor thread was not spawned, or has exited: it takes no step
\* any more
ReporterAbsent == reporter \in {"spawn_failed", "exited"}

\* C35 as claimed: with the monitor thread absent the calling path of both
\* wrappers is never held back: it leaves deployment_start.wait(), its send
\* on the channel whose receiver is gone lets it go on, and it returns the
\* result of the operation.
C35_CallingPathNeverBlocked ==
    (fn \in ProgressWrappers /\ ReporterAbsent) =>
        /\ pc = "deployment_start_blocked" => ENABLED Wrapper_deployment_start_pass
        /\ pc = "send" => ENABLED Wrapper_send
        /\ pc = "return" => ENABLED Wrapper_return


----------------------------------------------------------------------------
\* The generic monitor notifies before it looks at the channel

GenericWrapper == fn = "send_progress_on_long_task_with_message"

\* the rounds the monitor has begun: one per look at the channel, and the
\* one under way when the monitor sleeps or is about to look
RoundsBegun ==
    Len(Receives) + (IF reporter \in {"sleep", "try_recv"} THEN 1 ELSE 0)

\* C36: in send_progress_on_long_task_with_message, for an action Create,
\* Pause or Delete the monitor has notified once in each round it has begun,
\* so before each look at the channel, and it looks at the channel only
\* after the sleep of the round; a spawned monitor comes to notify at least
\* once, whatever the calling path does. For the action Nothing it never
\* notifies.
C36_GenericReporterEmitsBeforeStopCheck ==
    /\ [](GenericWrapper =>
            /\ args.action # "Nothing" =>
                  /\ Len(notified) = RoundsBegun
                  /\ \A n \in 1..Len(notified) :
                        Some(notified[n].method) = in_progress_method(args.action)
                  /\ reporter = "exited" => Len(notified) >= 1
            /\ args.action = "Nothing" => notified = <<>>)
    /\ [][(GenericWrapper /\ Len(Receives') > Len(Receives)) => reporter = "try_recv"]_vars
    /\ [][(GenericWrapper /\ reporter' = "try_recv") => reporter \in {"sleep", "try_recv"}]_vars
    /\ (GenericWrapper /\ ReporterSpawned /\ args.action # "Nothing") ~> (Len(notified) >= 1)

\* the wrapper has returned before the first notification of the monitor
C36_Witness ==
    /\ GenericWrapper
    /\ pc = "done"
    /\ args.action = "Delete"
    /\ Len(notified) >= 1
    /\ notified[1].at = "done"
    /\ notified[1].method = "delete_in_progress"

====
